---------------------------- MODULE Spec2Model ----------------------------
(***************************************************************************)
(* A model of the entrypoints package: the entry point scanner with its    *)
(* per-user cache (entrypoints/reader.py) and the query functions          *)
(* (entrypoints/__init__.py).                                              *)
(*                                                                         *)
(* Python strings are sequences of one-character strings, so that the     *)
(* code's splitting, matching, formatting and ordering of strings are      *)
(* computed and not assumed.  Python's None is NoneStr where a string is   *)
(* expected, NoneList where a list of strings is expected and None where   *)
(* a location result (a dict) is expected.                                 *)
(***************************************************************************)
EXTENDS Integers, Sequences, FiniteSets, TLC

\* ------------------------------------------------------------------------
\* Strings
\* ------------------------------------------------------------------------

NoneStr == <<"None">>

NoneList == <<NoneStr>>

None == [none |-> TRUE]

Lower == {"a", "b", "c", "d", "e", "f", "g", "h", "i", "j", "k", "l", "m",
          "n", "o", "p", "q", "r", "s", "t", "u", "v", "w", "x", "y", "z"}

Upper == {"A", "B", "P"}

Digits == {"0", "1", "2", "3", "4", "5", "6", "7", "8", "9"}

\* \w of the re module: letters, digits and the underscore.
WordChars == Lower \cup Upper \cup Digits \cup {"_"}

\* \s of the re module.
SpaceChars == {" ", "\t", "\n"}

\* The code point of a character: Python orders strings by code point.
Ord(c) ==
    CASE c = "\t" -> 9
      [] c = "\n" -> 10
      [] c = " " -> 32
      [] c = "," -> 44
      [] c = "-" -> 45
      [] c = "." -> 46
      [] c = "/" -> 47
      [] c \in Digits -> 48 + (CHOOSE d \in 0..9 :
                                 c = <<"0", "1", "2", "3", "4", "5", "6", "7", "8", "9">>[d + 1])
      [] c = ":" -> 58
      [] c = "A" -> 65
      [] c = "B" -> 66
      [] c = "N" -> 78
      [] c = "P" -> 80
      [] c = "[" -> 91
      [] c = "]" -> 93
      [] c = "_" -> 95
      [] c \in Lower -> 96 + (CHOOSE d \in 1..26 :
                                c = <<"a", "b", "c", "d", "e", "f", "g", "h", "i", "j", "k", "l", "m",
                                      "n", "o", "p", "q", "r", "s", "t", "u", "v", "w", "x", "y", "z">>[d])

\* s < t for Python strings: lexicographic by code point, a proper prefix first.
RECURSIVE StrLess(_, _)
StrLess(s, t) ==
    IF t = <<>> THEN FALSE
    ELSE IF s = <<>> THEN TRUE
    ELSE IF Head(s) # Head(t) THEN Ord(Head(s)) < Ord(Head(t))
    ELSE StrLess(Tail(s), Tail(t))

\* The index of the first c in s at or after i, 0 when there is none.
RECURSIVE IndexFrom(_, _, _)
IndexFrom(s, c, i) ==
    IF i > Len(s) THEN 0
    ELSE IF s[i] = c THEN i
    ELSE IndexFrom(s, c, i + 1)

\* c in s
Contains(s, c) == IndexFrom(s, c, 1) # 0

\* s.split(c): the list of the pieces of s between the occurrences of c.
RECURSIVE Split(_, _)
Split(s, c) ==
    LET i == IndexFrom(s, c, 1)
    IN  IF i = 0 THEN <<s>>
        ELSE <<SubSeq(s, 1, i - 1)>> \o Split(SubSeq(s, i + 1, Len(s)), c)

\* s.split(c, 1): at most one split, at the first c.
Split1(s, c) ==
    LET i == IndexFrom(s, c, 1)
    IN  IF i = 0 THEN <<s>>
        ELSE <<SubSeq(s, 1, i - 1), SubSeq(s, i + 1, Len(s))>>

\* s.strip(): whitespace removed at both ends.
RECURSIVE LStrip(_)
LStrip(s) ==
    IF s # <<>> /\ Head(s) \in SpaceChars THEN LStrip(Tail(s)) ELSE s

RECURSIVE RStrip(_)
RStrip(s) ==
    IF s # <<>> /\ s[Len(s)] \in SpaceChars THEN RStrip(SubSeq(s, 1, Len(s) - 1)) ELSE s

Strip(s) == LStrip(RStrip(s))

\* s.endswith(t)
EndsWith(s, t) ==
    /\ Len(s) >= Len(t)
    /\ SubSeq(s, Len(s) - Len(t) + 1, Len(s)) = t

\* "%s" % v: None is printed as the word None.
Str(v) == IF v = NoneStr THEN <<"N", "o", "n", "e">> ELSE v

\* ------------------------------------------------------------------------
\* The entry point pattern
\* ------------------------------------------------------------------------

\* The end of the longest run of \w characters of s that starts at i
\* (i - 1 when s[i] is no \w character).
RECURSIVE WordEnd(_, _)
WordEnd(s, i) ==
    IF i <= Len(s) /\ s[i] \in WordChars THEN WordEnd(s, i + 1) ELSE i - 1

\* The end of the match of \w+(\.\w+)* at i, 0 when it does not match there.
\* What follows the name in the pattern starts with none of \w and ".", so
\* only the longest match can lead to a match of the whole pattern.
RECURSIVE DottedEnd(_, _)
DottedEnd(s, i) ==
    LET e == WordEnd(s, i)
    IN  IF e < i THEN 0
        ELSE IF e + 2 <= Len(s) /\ s[e + 1] = "." /\ s[e + 2] \in WordChars
             THEN DottedEnd(s, e + 2)
             ELSE e

\* The end of the match of \s* at i (i - 1 when there is no whitespace).
RECURSIVE SpaceEnd(_, _)
SpaceEnd(s, i) ==
    IF i <= Len(s) /\ s[i] \in SpaceChars THEN SpaceEnd(s, i + 1) ELSE i - 1

\* A pattern without its end: a module name at the start is enough.
PrefixMatch(epstr) ==
    IF DottedEnd(epstr, 1) = 0 THEN [ok |-> FALSE]
    ELSE [ok |-> TRUE, modulename |-> SubSeq(epstr, 1, DottedEnd(epstr, 1)),
          objectname |-> NoneStr, extras |-> NoneStr]

\* entry_point_pattern.match(epstr): the groups modulename, objectname and
\* extras of the match, or ok = FALSE when the pattern does not match.
entry_point_pattern(epstr) ==
    LET n == Len(epstr)
        modEnd == DottedEnd(epstr, 1)
        objEnd == IF modEnd # 0 /\ modEnd < n /\ epstr[modEnd + 1] = ":"
                  THEN DottedEnd(epstr, modEnd + 2)
                  ELSE 0
        hasObj == objEnd # 0
        nameEnd == IF hasObj THEN objEnd ELSE modEnd
        spEnd == SpaceEnd(epstr, nameEnd + 1)
        \* $ matches at the end of the string and before a newline that
        \* ends the string.
        last == IF n > 0 /\ epstr[n] = "\n" THEN n - 1 ELSE n
        \* (\[.+\])? then $: nothing left, or a bracket pair around at
        \* least one character, none of them a newline, up to where $
        \* matches.
        bracket == /\ spEnd + 3 <= last
                   /\ epstr[spEnd + 1] = "["
                   /\ epstr[last] = "]"
                   /\ \A i \in (spEnd + 2)..(last - 1) : epstr[i] # "\n"
        ok == modEnd # 0 /\ (spEnd = n \/ bracket)
    IN  IF ~ok THEN [ok |-> FALSE]
        ELSE [ok |-> TRUE,
              modulename |-> SubSeq(epstr, 1, modEnd),
              objectname |-> IF hasObj THEN SubSeq(epstr, modEnd + 2, objEnd) ELSE NoneStr,
              extras |-> IF spEnd = n THEN NoneStr ELSE SubSeq(epstr, spEnd + 2, last - 1)]

\* ------------------------------------------------------------------------
\* Metadata files
\* ------------------------------------------------------------------------

\* A parsed entry_points.txt (the ConfigParser) is the set of its
\* declarations <<group, name, epstr>>; a group and a name occur together
\* at most once.  The DEFAULT section of the parser has no items.

\* The smallest string of a non-empty set of strings.
MinStr(S) == CHOOSE x \in S : \A y \in S \ {x} : StrLess(x, y)

\* sorted(S) for a set of strings.
RECURSIVE SortedStrs(_)
SortedStrs(S) ==
    IF S = {} THEN <<>>
    ELSE <<MinStr(S)>> \o SortedStrs(S \ {MinStr(S)})

\* The extras of a record of the cache: the tags between the commas, each
\* stripped of the whitespace around it.
ReaderExtras(extras) ==
    IF extras # NoneStr
    THEN LET parts == Split(extras, ",")
         IN  [i \in 1..Len(parts) |-> Strip(parts[i])]
    ELSE NoneList

\* The optionxform of configparser.ConfigParser: the key in lower case.
LowerOption(optionstr) ==
    [i \in 1..Len(optionstr) |->
        CASE optionstr[i] = "A" -> "a"
          [] optionstr[i] = "B" -> "b"
          [] optionstr[i] = "N" -> "n"
          [] optionstr[i] = "P" -> "p"
          [] OTHER -> optionstr[i]]

\* The optionxform of CaseSensitiveConfigParser, str: the key as it is
\* written in the file.
optionxform(optionstr) == optionstr

\* The records of one group, in the order of sorted(group.items()).
RECURSIVE GroupEntrypoints(_, _, _)
GroupEntrypoints(cp, group_name, names) ==
    IF names = <<>> THEN <<>>
    ELSE LET name == Head(names)
             epstr == (CHOOSE d \in cp : d[1] = group_name /\ optionxform(d[2]) = name)[3]
             m == entry_point_pattern(epstr)
         IN  (IF m.ok
              THEN <<[group |-> group_name,
                      name |-> name,
                      module_name |-> m.modulename,
                      object_name |-> m.objectname,
                      extras |-> ReaderExtras(m.extras)]>>
              ELSE <<>>)
             \o GroupEntrypoints(cp, group_name, Tail(names))

RECURSIVE GroupsEntrypoints(_, _)
GroupsEntrypoints(cp, groups) ==
    IF groups = <<>> THEN <<>>
    ELSE GroupEntrypoints(cp, Head(groups),
                          SortedStrs({optionxform(d[2]) : d \in {e \in cp : e[1] = Head(groups)}}))
         \o GroupsEntrypoints(cp, Tail(groups))

\* The records of a metadata file: groups in sorted order, the names of a
\* group in sorted order, a declaration the pattern does not match left out.
entrypoints_from_configparser(cp) ==
    GroupsEntrypoints(cp, SortedStrs({d[1] : d \in cp}))

\* ------------------------------------------------------------------------
\* Scanning one location
\* ------------------------------------------------------------------------

\* The name and version of a distribution from 'name-version' (split at
\* the first hyphen); both None when there is no hyphen.
NameVersion(distro_name_version) ==
    IF Contains(distro_name_version, "-")
    THEN LET nv == Split1(distro_name_version, "-")
         IN  [name |-> nv[1], version |-> nv[2]]
    ELSE [name |-> NoneStr, version |-> NoneStr]

\* The sort key of a distribution: "%s-%s" % (name, version).
DistroKey(d) == Str(d.name) \o <<"-">> \o Str(d.version)

\* The distributions in the order in which they were found.
FoundOrder(ds) == ds

\* list.sort(key=DistroKey): a stable sort, so distributions with equal
\* keys keep the order in which they were found.
RECURSIVE InsertDistro(_, _)
InsertDistro(sorted, d) ==
    IF sorted = <<>> THEN <<d>>
    ELSE IF StrLess(DistroKey(d), DistroKey(Head(sorted)))
         THEN <<d>> \o sorted
         ELSE <<Head(sorted)>> \o InsertDistro(Tail(sorted), d)

RECURSIVE SortDistributions(_)
SortDistributions(ds) ==
    IF ds = <<>> THEN <<>>
    ELSE InsertDistro(SortDistributions(SubSeq(ds, 1, Len(ds) - 1)), ds[Len(ds)])

\* A metadata file of a directory is [stem, ext, cp]: the file
\* <stem>.<ext>/entry_points.txt with the declarations cp.  The info
\* directory's name without its extension (osp.splitext) is the stem.
DirDistro(f) ==
    LET nv == NameVersion(f.stem)
    IN  [name |-> nv.name, version |-> nv.version,
         entrypoints |-> entrypoints_from_configparser(f.cp)]

\* entrypoints_from_dir for the metadata files in the order the two globs
\* enumerate them (listing) and the stat result's mtime.
entrypoints_from_dir(listing, st_mtime) ==
    [mtime |-> st_mtime,
     isdir |-> TRUE,
     distributions |-> SortDistributions([i \in 1..Len(listing) |-> DirDistro(listing[i])])]

\* The name of the marker file of a location that is not to be cached.
NO_CACHE_MARKER_FILE ==
    <<".", "e", "n", "t", "r", "y", "p", "o", "i", "n", "t", "s", "_",
      "n", "o", "_", "c", "a", "c", "h", "e">>

\* '.dist-info/entry_points.txt' and '.egg-info/entry_points.txt'
EntryPointsTxt ==
    <<"/", "e", "n", "t", "r", "y", "_", "p", "o", "i", "n", "t", "s", ".", "t", "x", "t">>

DistInfoSuffix == <<".", "d", "i", "s", "t", "-", "i", "n", "f", "o">> \o EntryPointsTxt

EggInfoSuffix == <<".", "e", "g", "g", "-", "i", "n", "f", "o">> \o EntryPointsTxt

DotEgg == <<".", "e", "g", "g">>

\* s.count(c)
Count(s, c) == Len(Split(s, c)) - 1

\* s.rsplit(c, 1)[0]: s up to its last c, all of s when it has none.
RSplitHead(s, c) ==
    LET parts == Split(s, c)
    IN  IF Len(parts) = 1 THEN s
        ELSE SubSeq(s, 1, Len(s) - Len(parts[Len(parts)]) - 1)

\* osp.basename(path)
Basename(path) == LET parts == Split(path, "/") IN parts[Len(parts)]

\* The distributions entrypoints_from_zip collects: one for every member
\* of the archive that passes the two tests of the loop.  Both tests, and
\* the name of the distribution, read z.filename, the path of the archive.
RECURSIVE ZipDistributions(_, _)
ZipDistributions(zfilename, infolist) ==
    IF infolist = <<>> THEN <<>>
    ELSE LET info == Head(infolist)
             rest == ZipDistributions(zfilename, Tail(infolist))
         IN  IF ~(EndsWith(zfilename, DistInfoSuffix) \/ EndsWith(zfilename, EggInfoSuffix))
             THEN rest
             ELSE IF Count(zfilename, "/") > 1
             THEN rest
             ELSE LET nv == NameVersion(RSplitHead(Split(zfilename, "/")[1], "."))
                  IN  <<[name |-> nv.name, version |-> nv.version,
                         entrypoints |-> entrypoints_from_configparser(info.cp)]>> \o rest

\* entrypoints_from_zip for the archive at path with the members infolist.
entrypoints_from_zip(path, infolist, st_mtime) ==
    [mtime |-> st_mtime,
     isdir |-> TRUE,
     distributions |-> SortDistributions(ZipDistributions(path, infolist))]

\* The name and version entrypoints_from_egg takes from the egg's name:
\* the first two of its pieces between hyphens.
EggNameVersion(egg_name) ==
    IF Contains(egg_name, "-")
    THEN LET parts == Split(egg_name, "-")
         IN  [name |-> parts[1], version |-> parts[2]]
    ELSE [name |-> NoneStr, version |-> NoneStr]

\* entrypoints_from_egg for a path that exists: kind is what is at the
\* path ("dir", "zip" or "file"), egginfo the EGG-INFO/entry_points.txt in
\* it ([present, cp]).  An archive without that member gives None.
entrypoints_from_egg(path, kind, egginfo, st_mtime) ==
    LET nv == EggNameVersion(Basename(path))
        entrypoints == IF kind \in {"dir", "zip"} /\ egginfo.present
                       THEN entrypoints_from_configparser(egginfo.cp)
                       ELSE <<>>
    IN  IF kind = "zip" /\ ~egginfo.present THEN None
        ELSE [mtime |-> st_mtime,
              isdir |-> (kind = "dir"),
              distributions |-> <<[name |-> nv.name, version |-> nv.version,
                                   entrypoints |-> entrypoints]>>]

\* The result for a path that does not exist.
Missing == [mtime |-> -1, isdir |-> FALSE, distributions |-> <<>>]

\* ------------------------------------------------------------------------
\* The filesystem
\* ------------------------------------------------------------------------

\* Modification times run over 1..MaxMtime.
MaxMtime == 2

\* The number of changes made to the filesystem in one behaviour.
MaxFsOps == 2

\* The number of scan() sessions in one behaviour.
MaxSessions == 2

\* The number of records of a group in the data of the cache layer.
MaxRecords == 2

\* The locations: two site directories, a zip archive and an egg.  They
\* are absolute, normalized paths, as _abspath_multi makes them.
SP1 == <<"/", "s", "p", "1">>

SP2 == <<"/", "s", "p", "2">>

ZIP == <<"/", "l", "i", "b", ".", "z", "i", "p">>

EGG == <<"/", "b", "-", "3", ".", "e", "g", "g">>

\* A site directory whose metadata file has malformed declarations.
SP3 == <<"/", "s", "p", "3">>

\* A site directory whose metadata files test the order of a result.
SP4 == <<"/", "s", "p", "4">>

Paths == {SP1, SP2, SP3, SP4, ZIP, EGG}

\* Groups, names and entry point strings of the sample metadata files.
G == <<"g">>

K == <<"k">>

NA == <<"a">>

NB == <<"b">>

NC == <<"c">>

NQ == <<"q">>

NU == <<"u">>

\* The contents a location can have.  As a directory it holds the metadata
\* files DirFiles[ver]; as a zip archive the members ZipInfolist[ver]; as
\* an egg the EGG-INFO/entry_points.txt EggInfo[ver].
DirFiles(ver) ==
    CASE ver = 0 -> {}
      [] ver = 1 -> {[stem |-> <<"f", "-", "1">>, ext |-> "dist-info",
                      cp |-> {<<G, NA, <<"m", ":", "f">> >>,
                              <<G, NB, <<"m">> >>}]}
      [] ver = 2 -> {[stem |-> <<"f", "-", "1">>, ext |-> "dist-info",
                      cp |-> {<<G, NA, <<"n", ":", "f">> >>,
                              <<G, NC, <<"n">> >>}],
                     [stem |-> <<"h", "-", "1">>, ext |-> "egg-info",
                      cp |-> {<<G, NA, <<"p", " ", "[", "x", ",", " ", "y", "]">> >>,
                              <<K, NA, <<"p">> >>}]}
      [] ver = 3 -> {[stem |-> <<"f", "-", "1">>, ext |-> "dist-info",
                      cp |-> {<<G, NB, <<"m">> >>}],
                     [stem |-> <<"f", "-", "1">>, ext |-> "egg-info",
                      cp |-> {<<G, NC, <<"n">> >>}],
                     [stem |-> <<"h", "-", "1">>, ext |-> "egg-info",
                      cp |-> {<<G, NC, <<"p">> >>}]}
      \* references the pattern matches next to references it does not
      \* match: ":" without an object, a second word, empty brackets, no
      \* module, nothing at all, an empty name part, a bracket never opened
      [] ver = 4 -> {[stem |-> <<"w", "-", "1">>, ext |-> "dist-info",
                      cp |-> {<<G, NA, <<"m">> >>,
                              <<G, NB, <<"m", ".", "n", ":", "f", ".", "g">> >>,
                              <<G, NC, <<"m", ":", "f", " ", "[", "x", "]">> >>,
                              <<K, NQ, <<"m", "[", "x", ",", "y", "]">> >>,
                              <<G, NQ, <<"m", ":">> >>,
                              <<G, <<"r">>, <<"m", " ", "f">> >>,
                              <<G, <<"s">>, <<"m", "[", "]">> >>,
                              <<G, <<"t">>, <<":", "f">> >>,
                              <<G, NU, <<>> >>,
                              <<G, <<"v">>, <<"m", ".", ".", "n">> >>,
                              <<K, NA, <<"m", ":", "f", "]">> >>}]}
      [] ver = 5 -> {[stem |-> <<"w", "-", "1">>, ext |-> "dist-info",
                      cp |-> {<<G, NA, <<"m">> >>,
                              <<G, NQ, <<"m", ":", "f">> >>}]}
      \* two info directories without a hyphen in their names, found by
      \* the same glob, next to one with name and version
      [] ver = 6 -> {[stem |-> <<"p">>, ext |-> "dist-info",
                      cp |-> {<<G, NA, <<"m">> >>}],
                     [stem |-> <<"q">>, ext |-> "dist-info",
                      cp |-> {<<G, NB, <<"n">> >>}],
                     [stem |-> <<"h", "-", "1">>, ext |-> "egg-info",
                      cp |-> {<<K, NA, <<"m">> >>}]}
      \* two distributions found by the same glob; two names of a group
      \* that differ in letter case only, and a second group
      [] ver = 7 -> {[stem |-> <<"w", "-", "1">>, ext |-> "dist-info",
                      cp |-> {<<K, NA, <<"p">> >>,
                              <<G, NB, <<"m", ":", "f">> >>,
                              <<G, NA, <<"m">> >>,
                              <<G, <<"A">>, <<"n">> >>}],
                     [stem |-> <<"b", "-", "2">>, ext |-> "dist-info",
                      cp |-> {<<G, NC, <<"m">> >>}]}

\* The members of the archive, in the order of its directory: the
\* metadata files of DirFiles[ver] under their names in the archive.
RECURSIVE SeqOfSet(_)
SeqOfSet(S) ==
    IF S = {} THEN <<>>
    ELSE LET x == CHOOSE y \in S : \A z \in S : z.ext # y.ext => y.ext = "dist-info"
         IN  <<x>> \o SeqOfSet(S \ {x})


ZipInfolist(ver, marker) ==
    LET files == SeqOfSet(DirFiles(ver))
    IN  [i \in 1..Len(files) |->
            [filename |-> files[i].stem \o (IF files[i].ext = "dist-info" THEN DistInfoSuffix
                                             ELSE EggInfoSuffix), cp |-> files[i].cp]]
        \o (IF marker THEN <<[filename |-> NO_CACHE_MARKER_FILE, cp |-> {}]>> ELSE <<>>)

EggInfo(ver) ==
    CASE ver = 0 -> [present |-> FALSE, cp |-> {}]
      [] ver = 1 -> [present |-> TRUE, cp |-> {<<G, NA, <<"e", ":", "f">> >>}]
      [] ver = 2 -> [present |-> TRUE, cp |-> {<<G, NC, <<"e">> >>}]
      [] ver = 3 -> [present |-> TRUE, cp |-> {}]

\* What a path can be, and the contents it can have.
KindsOf(p) ==
    CASE p = SP1 -> {"dir"}
      [] p = SP2 -> {"dir", "missing"}
      [] p = SP3 -> {"dir", "missing"}
      [] p = SP4 -> {"dir", "missing"}
      [] p = ZIP -> {"zip", "file"}
      [] p = EGG -> {"dir", "zip", "missing"}

VersionsOf(p) ==
    CASE p = SP1 -> {0, 1, 2}
      [] p = SP2 -> {2, 3}
      [] p = SP3 -> {4, 5}
      [] p = SP4 -> {6, 7}
      [] p = ZIP -> {1}
      [] p = EGG -> {0, 1}

Mtimes == 1..MaxMtime

\* The orders in which the two globs of entrypoints_from_dir can enumerate
\* a directory's metadata files: '*.dist-info' first, then '*.egg-info',
\* each in the order of the directory listing.
RECURSIVE Orders(_)
Orders(S) ==
    IF S = {} THEN {<<>>}
    ELSE UNION {{<<x>> \o o : o \in Orders(S \ {x})} : x \in S}

Listings(files) ==
    {a \o b : a \in Orders({f \in files : f.ext = "dist-info"}),
              b \in Orders({f \in files : f.ext = "egg-info"})}

\* ------------------------------------------------------------------------
\* State
\* ------------------------------------------------------------------------

VARIABLES
    fs,          \* path -> [kind, mtime, ver, marker]: what is on disk
    cacheFile,   \* the file at the cache path: NoFile or [doc |-> path -> result]
    tmpFile,     \* the temp file of a running atomic_json_dump, or NoFile
    scanner,     \* the EntryPointsScanner: cache_file, working_cache, non_cacheable_paths
    gen,         \* the scan() generator: its locations, position and cache_modified
    consumer,    \* the code iterating scan(): a query and what it has collected
    probe,       \* the last entrypoints_for_path call: the stored entry it met, the
                 \* file at the path, the outcome and the scanning methods called
    session,     \* what the running session did: the results yielded with the
                 \* entries they met, the writes begun and renamed, the step a
                 \* write failed at, the cache file before the write
    environ,     \* the value of ENTRYPOINTS_CACHE_FILE
    litter,      \* the temp files left behind in the cache directory
    budget,      \* sessions and filesystem changes so far
    peer         \* a scan() session of a second process on the same cache file:
                 \* its scanner, its position and its temp file

vars == <<fs, cacheFile, tmpFile, scanner, gen, consumer, probe, session, environ, litter,
          budget, peer>>

NoFile == [absent |-> TRUE]

\* dict.get(path): None for a path that is no key.
Get(d, path) == IF path \in DOMAIN d THEN d[path] ELSE None

\* d = {path: value}: the other keys are gone.
PutAlone(d, path, value) == [q \in {path} |-> value]

\* d[path] = value
Put(d, path, value) ==
    [q \in DOMAIN d \cup {path} |-> IF q = path THEN value ELSE d[q]]

EmptyDict == [q \in {} |-> None]

\* ------------------------------------------------------------------------
\* EntryPointsScanner.entrypoints_for_path
\* ------------------------------------------------------------------------

\* A scanner for which no stored entry is valid.
CacheNeverUpToDate(path_cache, st_mtime, isdir) == FALSE

\* The test for a valid cache entry of a path that is no egg.
CacheUpToDate(path_cache, st_mtime, isdir) ==
    /\ path_cache # None
    /\ st_mtime = path_cache.mtime
    /\ isdir = path_cache.isdir

\* A scanner that trusts no stored entry of an egg path.
EggCacheNotTrusted(path_cache) == FALSE

\* The test for trusting the stored entry of an egg path.
EggCacheTrusted(path_cache) == path_cache # None

\* The outcome of a call: the value returned or the exception raised, the
\* scanning methods called, and whether the path was added to
\* non_cacheable_paths.
Returned(value, called, nocache) ==
    [raised |-> "", value |-> value, called |-> called, nocache |-> nocache]

Raised(exc, called) ==
    [raised |-> exc, value |-> None, called |-> called, nocache |-> FALSE]

\* The call of entrypoints_from_dir: the marker file in the directory
\* puts the path into non_cacheable_paths.
ScanDir(listing, f) ==
    Returned(entrypoints_from_dir(listing, f.mtime), {"dir"}, f.marker)

\* NO_CACHE_MARKER_FILE in z.namelist()
InNamelist(infolist, filename) ==
    \E i \in 1..Len(infolist) : infolist[i].filename = filename

\* The call of entrypoints_from_zip: the marker file among the members
\* puts the path into non_cacheable_paths.
ScanZip(path, infolist, f) ==
    Returned(entrypoints_from_zip(path, infolist, f.mtime), {"zip"},
             InNamelist(infolist, NO_CACHE_MARKER_FILE))

\* The call of entrypoints_from_egg: its os.stat is not guarded, so a
\* path that does not exist raises.
ScanEgg(path, f) ==
    IF f.kind = "missing"
    THEN Raised("FileNotFoundError", {"egg"})
    ELSE Returned(entrypoints_from_egg(path, f.kind, EggInfo(f.ver), f.mtime), {"egg"}, FALSE)

\* entrypoints_for_path(path) with the stored entry path_cache, for the
\* file f at the path and, for a directory, the enumeration order listing.
EntrypointsForPath(path_cache, path, f, listing) ==
    IF EndsWith(path, DotEgg)
    THEN IF EggCacheTrusted(path_cache)
         THEN Returned(path_cache, {}, FALSE)
         ELSE ScanEgg(path, f)
    ELSE IF f.kind = "missing"
    THEN Returned(Missing, {}, FALSE)
    ELSE IF CacheUpToDate(path_cache, f.mtime, f.kind = "dir")
    THEN Returned(path_cache, {}, FALSE)
    ELSE IF f.kind = "dir"
    THEN ScanDir(listing, f)
    ELSE IF f.kind = "zip"
    THEN ScanZip(path, ZipInfolist(f.ver, f.marker), f)
    \* neither a directory nor a zip file: the method ends without a return
    ELSE Returned(None, {}, FALSE)

entrypoints_for_path(working_cache, path, f, listing) ==
    EntrypointsForPath(Get(working_cache, path), path, f, listing)

\* The enumeration orders a call for the file f can meet.
ListingsOf(f) == IF f.kind = "dir" THEN Listings(DirFiles(f.ver)) ELSE {<<>>}

\* ------------------------------------------------------------------------
\* The queries: iter_all_epinfo, get_single, get_group_all, get_group_named
\* ------------------------------------------------------------------------

NoExc == [type |-> "none"]

NoSuchEntryPoint(group, name) == [type |-> "NoSuchEntryPoint", group |-> group, name |-> name]

Exc(type) == [type |-> type]

\* EntryPoint(epinfo['name'], epinfo['module_name'], epinfo['object_name'],
\*            extras=epinfo['extras'], distro=Distribution(name, version))
EntryPoint(distro, epinfo) ==
    [name |-> epinfo.name,
     module_name |-> epinfo.module_name,
     object_name |-> epinfo.object_name,
     extras |-> epinfo.extras,
     distro |-> [name |-> distro.name, version |-> distro.version]]

\* re.split(',\s*', s): the pieces of s between the commas, the
\* whitespace after a comma taken with the comma.
RECURSIVE ReSplit(_)
ReSplit(s) ==
    LET i == IndexFrom(s, ",", 1)
    IN  IF i = 0 THEN <<s>>
        ELSE <<SubSeq(s, 1, i - 1)>> \o ReSplit(SubSeq(s, SpaceEnd(s, i + 1) + 1, Len(s)))

\* EntryPoint.from_string(epstr, name): the entry point, or BadEntryPoint
\* with the string when the pattern does not match.
from_string(epstr, name) ==
    LET m == entry_point_pattern(epstr)
    IN  IF m.ok
        THEN [status |-> "returned",
              result |-> [value |-> [name |-> name,
                                     module_name |-> m.modulename,
                                     object_name |-> m.objectname,
                                     extras |-> IF m.extras # NoneStr THEN ReSplit(m.extras)
                                                ELSE NoneList,
                                     distro |-> None]],
              exc |-> NoExc]
        ELSE [status |-> "raised",
              result |-> None,
              exc |-> [type |-> "BadEntryPoint", epstr |-> epstr]]

\* get_single and get_group_all call iter_all_epinfo(path=path,
\* cache_file=cache_file), while reader.iter_all_epinfo declares path
\* alone.  The model follows the bodies of the queries: their loops over
\* what iter_all_epinfo(path) yields.

\* The code that iterates scan().  "iter" is a plain loop over scan(),
\* which may stop or fail at any result; the others are the queries, which
\* read scan() through iter_all_epinfo.
Iterate == [kind |-> "iter", group |-> NoneStr, name |-> NoneStr]

GetSingle(group, name) == [kind |-> "get_single", group |-> group, name |-> name]

GetGroupAll(group) == [kind |-> "get_group_all", group |-> group, name |-> NoneStr]

GetGroupNamed(group) == [kind |-> "get_group_named", group |-> group, name |-> NoneStr]

\* An iter_all_epinfo that skips no distribution.
NeverShadowed(name, distro_names_seen) == FALSE

\* An iter_all_epinfo that skips no distribution without a name.
ShadowedByName(name, distro_names_seen) == name # NoneStr /\ name \in distro_names_seen

\* A distribution is skipped when one of its name was found before.
Shadowed(name, distro_names_seen) == name \in distro_names_seen

\* A get_single that looks at the name alone.
NameMatch(epinfo, group, name) == epinfo.name = name

\* The test of get_single for the entry point it looks for.
SingleMatch(epinfo, group, name) == epinfo.group = group /\ epinfo.name = name

\* The test of get_group_all for the entry points of its group.
GroupMatch(epinfo, group) == epinfo.group = group

\* The pairs (distro, epinfo) iter_all_epinfo yields for the distributions
\* of one location, with the names seen before it; distro_names_seen after.
RECURSIVE EpinfoOfDistros(_, _)
EpinfoOfDistros(distros, seen) ==
    IF distros = <<>> THEN [pairs |-> <<>>, seen |-> seen]
    ELSE LET distro == Head(distros)
         IN  IF Shadowed(distro.name, seen)
             THEN EpinfoOfDistros(Tail(distros), seen)
             ELSE LET rest == EpinfoOfDistros(Tail(distros), seen \cup {distro.name})
                  IN  [pairs |-> [i \in 1..Len(distro.entrypoints) |->
                                     [distro |-> distro, epinfo |-> distro.entrypoints[i]]]
                                 \o rest.pairs,
                       seen |-> rest.seen]

\* The first pair get_single accepts, 0 when there is none.
RECURSIVE FirstMatch(_, _, _, _)
FirstMatch(pairs, i, group, name) ==
    IF i > Len(pairs) THEN 0
    ELSE IF SingleMatch(pairs[i].epinfo, group, name) THEN i
    ELSE FirstMatch(pairs, i + 1, group, name)

\* The entry points get_group_all appends for the pairs.
RECURSIVE GroupAllOf(_, _)
GroupAllOf(pairs, group) ==
    IF pairs = <<>> THEN <<>>
    ELSE (IF GroupMatch(Head(pairs).epinfo, group)
          THEN <<EntryPoint(Head(pairs).distro, Head(pairs).epinfo)>>
          ELSE <<>>)
         \o GroupAllOf(Tail(pairs), group)

\* A get_group_named in which the last entry point of a name wins.
KeepLast(result, ep) == Put(result, ep.name, ep)

\* result[ep.name] = ep of get_group_named for a name not yet in result.
KeepNamed(result, ep) ==
    IF ep.name \notin DOMAIN result THEN Put(result, ep.name, ep) ELSE result

\* get_group_named over the list get_group_all returned.
RECURSIVE GroupNamedOf(_, _)
GroupNamedOf(eps, result) ==
    IF eps = <<>> THEN result
    ELSE GroupNamedOf(Tail(eps), KeepNamed(result, Head(eps)))

\* The consumer after one result of scan(): a query goes through the
\* result's distributions (a result without them is a TypeError).
ConsumeQuery(c, location_ep) ==
    IF location_ep = None
    THEN [c EXCEPT !.status = "raised", !.exc = Exc("TypeError")]
    ELSE LET e == EpinfoOfDistros(location_ep.distributions, c.seen)
             m == FirstMatch(e.pairs, 1, c.query.group, c.query.name)
         IN  IF c.query.kind = "get_single"
             THEN IF m # 0
                  THEN [c EXCEPT !.status = "returned",
                                 !.result = [value |-> EntryPoint(e.pairs[m].distro, e.pairs[m].epinfo)]]
                  ELSE [c EXCEPT !.seen = e.seen]
             ELSE [c EXCEPT !.seen = e.seen,
                            !.acc = c.acc \o GroupAllOf(e.pairs, c.query.group)]

\* The consumer when scan() has ended by itself: with the exception exc
\* that left scan() (NoExc when its locations were exhausted).
FinishQuery(c, exc) ==
    IF exc # NoExc THEN [c EXCEPT !.status = "raised", !.exc = exc]
    ELSE CASE c.query.kind = "get_single" ->
                [c EXCEPT !.status = "raised",
                          !.exc = NoSuchEntryPoint(c.query.group, c.query.name)]
           [] c.query.kind = "get_group_all" ->
                [c EXCEPT !.status = "returned", !.result = [value |-> c.acc]]
           [] c.query.kind = "get_group_named" ->
                [c EXCEPT !.status = "returned", !.result = [value |-> GroupNamedOf(c.acc, EmptyDict)]]
           [] c.query.kind = "iter" ->
                [c EXCEPT !.status = "returned"]

\* ------------------------------------------------------------------------
\* The scanner and its sessions
\* ------------------------------------------------------------------------

\* The value of ENTRYPOINTS_CACHE_FILE: a path, or "0" for no caching.
CachePath == "/cache.json"

\* A locate_cache_file that takes every value of the variable for a path.
LocateAsGiven(envvar) == envvar

\* locate_cache_file(): "" stands for None.
locate_cache_file(envvar) == IF envvar = "0" THEN "" ELSE envvar

\* A file at the cache path that is no JSON document.
Corrupt == [corrupt |-> TRUE]

\* A read_user_cache that finds no file.
ReadNothing(file) == EmptyDict

\* read_user_cache(path): the document of the file, {} when there is none.
read_user_cache(file) == IF file = NoFile THEN EmptyDict ELSE file.doc

\* json.load raises for a file that is no JSON document, and
\* read_user_cache catches FileNotFoundError alone.
ReadRaises(file) == file = Corrupt

\* EntryPointsScanner() raises what read_user_cache raises.
ConstructionRaises(envvar, file) == locate_cache_file(envvar) # "" /\ ReadRaises(file)

\* EntryPointsScanner(): the store is read from the cache file once.
NewScanner(envvar, file) ==
    [cache_file |-> locate_cache_file(envvar),
     working_cache |-> IF locate_cache_file(envvar) # ""
                       THEN read_user_cache(file)
                       ELSE EmptyDict,
     non_cacheable_paths |-> {}]

NoProbe == [none |-> TRUE]

NoGen == [pc |-> "none", locations |-> <<>>, i |-> 1, cache_modified |-> FALSE,
          value |-> None, how |-> "", exc |-> NoExc, werr |-> NoExc]

NoConsumer == [query |-> Iterate,
               status |-> "running", seen |-> {}, acc |-> <<>>,
               result |-> None, exc |-> NoExc]

NoSession == [flushes |-> 0, renames |-> 0, failed |-> "",
              processed |-> <<>>, target0 |-> NoFile, before |-> EmptyDict,
              file0 |-> NoFile, prev |-> None]

NoPeer == [pc |-> "none", locations |-> <<>>, i |-> 1,
           working_cache |-> EmptyDict, non_cacheable_paths |-> {},
           cache_modified |-> FALSE, tmp |-> NoFile, file0 |-> NoFile, renames |-> 0]

\* A scan() that stores a result only for a path without an entry.
StoreLacks(locn_ep, stored) == stored = None

\* scan() marks the store as modified for a result that differs from the
\* stored one, unless the path is not to be cached.
StoreDiffers(locn_ep, stored) == locn_ep # stored

\* A scan() that marks the store as modified for every path.
MarksAlways(path, non_cacheable_paths) == TRUE

MarksModified(path, non_cacheable_paths) == path \notin non_cacheable_paths

\* The test of the finally clause of scan().
ShouldWrite(cache_modified, cache_file) == cache_modified /\ cache_file # ""

\* A write_user_cache that leaves no path out.
CacheDataUnfiltered(working_cache, non_cacheable_paths) == working_cache

\* The document write_user_cache hands to atomic_json_dump.
CacheData(working_cache, non_cacheable_paths) ==
    [q \in DOMAIN working_cache \ non_cacheable_paths |-> working_cache[q]]

\* A new session: a query (which builds its own scanner) or a loop over
\* scan(), of a new scanner or of the one at hand.
Start(q, locs, fresh) ==
    /\ gen.pc = "none"
    /\ budget.sessions < MaxSessions
    /\ fresh \/ (q.kind = "iter" /\ budget.sessions > 0)
    /\ IF fresh /\ ConstructionRaises(environ, cacheFile)
       THEN /\ gen' = [NoGen EXCEPT !.pc = "done", !.locations = locs, !.how = "construct",
                                    !.exc = Exc("JSONDecodeError")]
            /\ consumer' = [NoConsumer EXCEPT !.query = q, !.status = "raised",
                                              !.exc = Exc("JSONDecodeError")]
            /\ UNCHANGED scanner
       ELSE /\ scanner' = IF fresh THEN NewScanner(environ, cacheFile) ELSE scanner
            /\ gen' = [NoGen EXCEPT !.pc = "ready", !.locations = locs]
            /\ consumer' = [NoConsumer EXCEPT !.query = q]
    /\ session' = [NoSession EXCEPT !.file0 = cacheFile, !.prev = session.prev]
    /\ probe' = NoProbe
    /\ budget' = [budget EXCEPT !.sessions = @ + 1]
    /\ UNCHANGED <<peer, fs, cacheFile, tmpFile, environ, litter>>

\* The body of the loop of scan() for the outcome out of
\* entrypoints_for_path(path): the result is stored when it differs from
\* the stored one, and yielded.
ScanStore(path, stored, out) ==
    /\ probe' = [path |-> path, path_cache |-> stored, f |-> fs[path], out |-> out,
                 has_entry |-> path \in DOMAIN scanner.working_cache]
    /\ IF out.raised # ""
       THEN /\ gen' = [gen EXCEPT !.pc = "finally", !.how = "raised", !.exc = Exc(out.raised)]
            /\ UNCHANGED <<scanner, session>>
       ELSE /\ scanner' = [scanner EXCEPT
                   !.non_cacheable_paths = IF out.nocache THEN @ \cup {path} ELSE @,
                   !.working_cache = IF StoreDiffers(out.value, stored)
                                     THEN Put(@, path, out.value)
                                     ELSE @]
            /\ gen' = [gen EXCEPT
                   !.pc = "yielded",
                   !.i = @ + 1,
                   !.value = out.value,
                   !.cache_modified =
                       @ \/ (/\ StoreDiffers(out.value, stored)
                             /\ MarksModified(path, scanner'.non_cacheable_paths))]
            /\ session' = [session EXCEPT
                   !.processed = Append(@, [path |-> path, value |-> out.value,
                                            stored |-> stored])]

\* scan() resumed: the next location is looked up, stored and yielded.
ScanNext ==
    /\ gen.pc = "ready"
    /\ gen.i <= Len(gen.locations)
    /\ \E listing \in ListingsOf(fs[gen.locations[gen.i]]) :
          ScanStore(gen.locations[gen.i],
                    Get(scanner.working_cache, gen.locations[gen.i]),
                    entrypoints_for_path(scanner.working_cache, gen.locations[gen.i],
                                         fs[gen.locations[gen.i]], listing))
    /\ UNCHANGED <<peer, fs, cacheFile, tmpFile, consumer, environ, litter, budget>>

\* scan() resumed after its last location: the loop ends.
ScanEnd ==
    /\ gen.pc = "ready"
    /\ gen.i > Len(gen.locations)
    /\ gen' = [gen EXCEPT !.pc = "finally", !.how = "exhausted"]
    /\ UNCHANGED <<peer, fs, cacheFile, tmpFile, scanner, consumer, probe, session, environ, litter, budget>>

\* A query takes the yielded result: it goes on, returns or fails.
Consume ==
    /\ gen.pc = "yielded"
    /\ consumer.query.kind # "iter"
    /\ consumer' = ConsumeQuery(consumer, gen.value)
    /\ gen' = IF consumer'.status = "running"
              THEN [gen EXCEPT !.pc = "ready"]
              ELSE [gen EXCEPT !.pc = "finally", !.how = "closed"]
    /\ UNCHANGED <<peer, fs, cacheFile, tmpFile, scanner, probe, session, environ, litter, budget>>

\* A plain loop over scan() takes the yielded result and goes on.
LoopContinue ==
    /\ gen.pc = "yielded"
    /\ consumer.query.kind = "iter"
    /\ gen' = [gen EXCEPT !.pc = "ready"]
    /\ UNCHANGED <<peer, fs, cacheFile, tmpFile, scanner, consumer, probe, session, environ, litter, budget>>

\* A plain loop over scan() leaves at the yielded result (break).
LoopBreak ==
    /\ gen.pc = "yielded"
    /\ consumer.query.kind = "iter"
    /\ consumer' = [consumer EXCEPT !.status = "returned"]
    /\ gen' = [gen EXCEPT !.pc = "finally", !.how = "closed"]
    /\ UNCHANGED <<peer, fs, cacheFile, tmpFile, scanner, probe, session, environ, litter, budget>>

\* The body of a plain loop over scan() raises at the yielded result.
LoopRaise ==
    /\ gen.pc = "yielded"
    /\ consumer.query.kind = "iter"
    /\ consumer' = [consumer EXCEPT !.status = "raised", !.exc = Exc("ConsumerError")]
    /\ gen' = [gen EXCEPT !.pc = "finally", !.how = "closed"]
    /\ UNCHANGED <<peer, fs, cacheFile, tmpFile, scanner, probe, session, environ, litter, budget>>

\* A dump that writes the document into the target file itself.
DumpInPlace(target, tmp, data) == [target |-> [doc |-> data], tmp |-> tmp]

\* What atomic_json_dump's json.dump leaves in the target file and in the
\* temp file: the document goes to the temp file mkstemp made.
AfterDump(target, tmp, data) == [target |-> target, tmp |-> [doc |-> data]]

\* A replace that leaves a target that exists as it is.
ReplaceKeepsTarget(target, tmp) ==
    [target |-> IF target = NoFile THEN tmp ELSE target, tmp |-> NoFile]

\* What replace(tmpname, path) leaves: the temp file under the target's name.
AfterReplace(target, tmp) == [target |-> tmp, tmp |-> NoFile]

\* What the except clause of atomic_json_dump leaves: the temp file unlinked.
AfterDumpFailure(target, tmp) == [target |-> target, tmp |-> NoFile]

\* The end of scan(): werr is the exception that left write_user_cache.
\* An exception in a generator closed because its consumer dropped it is
\* not raised in the consumer.
EndSession(werr) ==
    /\ gen' = [gen EXCEPT !.pc = "done", !.werr = werr]
    /\ consumer' =
         CASE gen.how = "closed" -> consumer
           [] gen.how = "exhausted" -> FinishQuery(consumer, werr)
           [] gen.how = "raised" -> FinishQuery(consumer, IF werr # NoExc THEN werr ELSE gen.exc)
           [] gen.how = "rebuild" ->
                IF werr # NoExc THEN [consumer EXCEPT !.status = "raised", !.exc = werr]
                ELSE [consumer EXCEPT !.status = "returned"]

\* The finally clause of scan() with nothing to write.
FinallySkip ==
    /\ gen.pc = "finally"
    /\ ~ShouldWrite(gen.cache_modified, scanner.cache_file)
    /\ EndSession(NoExc)
    /\ UNCHANGED <<peer, fs, cacheFile, tmpFile, scanner, probe, session, environ, litter, budget>>

\* The finally clause of scan() calls write_user_cache: the directory is
\* made and atomic_json_dump makes its temp file (mkstemp), or fails to.
WriteBegin ==
    /\ gen.pc = "finally"
    /\ ShouldWrite(gen.cache_modified, scanner.cache_file)
    /\ \/ /\ tmpFile' = [partial |-> TRUE]
          /\ gen' = [gen EXCEPT !.pc = "dump"]
          /\ session' = [session EXCEPT !.flushes = @ + 1, !.target0 = cacheFile]
          /\ UNCHANGED consumer
       \/ /\ EndSession(Exc("OSError"))
          /\ session' = [session EXCEPT !.flushes = @ + 1, !.target0 = cacheFile,
                                          !.failed = "mkstemp"]
          /\ UNCHANGED tmpFile
    /\ UNCHANGED <<peer, fs, cacheFile, scanner, probe, environ, litter, budget>>

\* json.dump writes the whole document.
DumpDone ==
    /\ gen.pc = "dump"
    /\ LET after == AfterDump(cacheFile, tmpFile,
                              CacheData(scanner.working_cache, scanner.non_cacheable_paths))
       IN  /\ cacheFile' = after.target
           /\ tmpFile' = after.tmp
    /\ gen' = [gen EXCEPT !.pc = "replace"]
    /\ UNCHANGED <<peer, fs, scanner, consumer, probe, session, environ, litter, budget>>

\* json.dump fails part-way: the temp file is unlinked, the error raised again.
DumpFail ==
    /\ gen.pc = "dump"
    /\ LET after == AfterDumpFailure(cacheFile, tmpFile)
       IN  /\ cacheFile' = after.target
           /\ tmpFile' = after.tmp
    /\ session' = [session EXCEPT !.failed = "dump"]
    /\ EndSession(Exc("OSError"))
    /\ UNCHANGED <<peer, fs, scanner, probe, environ, litter, budget>>

\* replace(tmpname, path) renames the temp file onto the cache file.
ReplaceDone ==
    /\ gen.pc = "replace"
    /\ LET after == AfterReplace(cacheFile, tmpFile)
       IN  /\ cacheFile' = after.target
           /\ tmpFile' = after.tmp
    /\ session' = [session EXCEPT !.renames = @ + 1]
    /\ EndSession(NoExc)
    /\ UNCHANGED <<peer, fs, scanner, probe, environ, litter, budget>>

\* replace(tmpname, path) fails: it is outside the try, the temp file stays.
ReplaceFail ==
    /\ gen.pc = "replace"
    /\ tmpFile' = NoFile
    /\ litter' = litter + 1
    /\ session' = [session EXCEPT !.failed = "replace"]
    /\ EndSession(Exc("OSError"))
    /\ UNCHANGED <<peer, fs, cacheFile, scanner, probe, environ, budget>>

\* A call of rebuild_cache(add_locations), of a new scanner or of the one
\* at hand.
RebuildCache(add_locations) ==
    [kind |-> "rebuild_cache", group |-> NoneStr, name |-> NoneStr,
     add_locations |-> add_locations]

\* A rebuild_cache that goes on with the store as it is.
StoreKept(working_cache) == working_cache

\* self.working_cache = {} of rebuild_cache.
StoreEmptied(working_cache) == EmptyDict

\* rebuild_cache up to its loop: it raises without a cache file; else the
\* paths of the store and the added ones make the set to go through, in
\* some order, and the store is emptied.
RebuildStart(add_locations, fresh) ==
    /\ gen.pc = "none"
    /\ budget.sessions < MaxSessions
    /\ fresh \/ budget.sessions > 0
    /\ IF fresh /\ ConstructionRaises(environ, cacheFile)
       THEN /\ gen' = [NoGen EXCEPT !.pc = "done", !.how = "construct",
                                    !.exc = Exc("JSONDecodeError")]
            /\ consumer' = [NoConsumer EXCEPT !.query = RebuildCache(add_locations),
                                              !.status = "raised",
                                              !.exc = Exc("JSONDecodeError")]
            /\ session' = NoSession
            /\ UNCHANGED scanner
       ELSE LET s == IF fresh THEN NewScanner(environ, cacheFile) ELSE scanner
            IN  IF s.cache_file = ""
                THEN /\ scanner' = s
                     /\ gen' = [NoGen EXCEPT !.pc = "done", !.how = "rebuild",
                                             !.exc = Exc("RuntimeError")]
                     /\ consumer' = [NoConsumer EXCEPT !.query = RebuildCache(add_locations),
                                                       !.status = "raised",
                                                       !.exc = Exc("RuntimeError")]
                     /\ session' = [NoSession EXCEPT !.before = s.working_cache]
                ELSE /\ \E order \in Orders(DOMAIN s.working_cache
                                                \cup {add_locations[i] : i \in 1..Len(add_locations)}) :
                           gen' = [NoGen EXCEPT !.pc = "rebuild", !.how = "rebuild",
                                                !.locations = order]
                     /\ scanner' = [s EXCEPT !.working_cache = StoreEmptied(@)]
                     /\ consumer' = [NoConsumer EXCEPT !.query = RebuildCache(add_locations)]
                     /\ session' = [NoSession EXCEPT !.before = s.working_cache]
    /\ probe' = NoProbe
    /\ budget' = [budget EXCEPT !.sessions = @ + 1]
    /\ UNCHANGED <<peer, fs, cacheFile, tmpFile, environ, litter>>

\* The body of the loop of rebuild_cache for the outcome out of
\* entrypoints_for_path(path): the result, whatever it is, is stored.
RebuildStore(path, out) ==
    /\ probe' = [path |-> path, path_cache |-> Get(scanner.working_cache, path),
                 f |-> fs[path], out |-> out,
                 has_entry |-> path \in DOMAIN scanner.working_cache]
    /\ IF out.raised # ""
       THEN /\ gen' = [gen EXCEPT !.pc = "done", !.exc = Exc(out.raised)]
            /\ consumer' = [consumer EXCEPT !.status = "raised", !.exc = Exc(out.raised)]
            /\ UNCHANGED <<scanner, session>>
       ELSE /\ scanner' = [scanner EXCEPT
                   !.non_cacheable_paths = IF out.nocache THEN @ \cup {path} ELSE @,
                   !.working_cache = Put(@, path, out.value)]
            /\ gen' = [gen EXCEPT !.i = @ + 1, !.value = out.value]
            /\ session' = [session EXCEPT
                   !.processed = Append(@, [path |-> path, value |-> out.value,
                                            stored |-> None])]
            /\ UNCHANGED consumer

\* One turn of the loop of rebuild_cache: a path that does not exist is
\* passed over, any other is scanned and stored.
RebuildNext ==
    /\ gen.pc = "rebuild"
    /\ gen.i <= Len(gen.locations)
    /\ IF fs[gen.locations[gen.i]].kind = "missing"
       THEN /\ gen' = [gen EXCEPT !.i = @ + 1]
            /\ UNCHANGED <<scanner, consumer, probe, session>>
       ELSE \E listing \in ListingsOf(fs[gen.locations[gen.i]]) :
               RebuildStore(gen.locations[gen.i],
                            entrypoints_for_path(scanner.working_cache, gen.locations[gen.i],
                                                 fs[gen.locations[gen.i]], listing))
    /\ UNCHANGED <<peer, fs, cacheFile, tmpFile, environ, litter, budget>>

\* rebuild_cache after its loop calls write_user_cache, whatever the loop
\* has changed: the temp file is made, or that fails.
RebuildWrite ==
    /\ gen.pc = "rebuild"
    /\ gen.i > Len(gen.locations)
    /\ \/ /\ tmpFile' = [partial |-> TRUE]
          /\ gen' = [gen EXCEPT !.pc = "dump"]
          /\ session' = [session EXCEPT !.flushes = @ + 1, !.target0 = cacheFile]
          /\ UNCHANGED consumer
       \/ /\ EndSession(Exc("OSError"))
          /\ session' = [session EXCEPT !.flushes = @ + 1, !.target0 = cacheFile,
                                          !.failed = "mkstemp"]
          /\ UNCHANGED tmpFile
    /\ UNCHANGED <<peer, fs, cacheFile, scanner, probe, environ, litter, budget>>

\* The caller of the session goes on: the generator, the query and what
\* they hold are dropped; the scanner stays.
Release ==
    /\ gen.pc = "done"
    /\ gen' = NoGen
    /\ consumer' = NoConsumer
    /\ probe' = NoProbe
    /\ session' = NoSession
    /\ UNCHANGED <<peer, fs, cacheFile, tmpFile, scanner, environ, litter, budget>>

\* The same, with a note of the session for the one that follows: its
\* list, the place scan() came to, the step of the write that failed, and
\* the filesystem it ran on.
ReleaseNoted ==
    /\ gen.pc = "done"
    /\ gen' = NoGen
    /\ consumer' = NoConsumer
    /\ probe' = NoProbe
    /\ session' = [NoSession EXCEPT
                      !.prev = [locations |-> gen.locations, i |-> gen.i, how |-> gen.how,
                                failed |-> session.failed, fs |-> fs]]
    /\ UNCHANGED <<peer, fs, cacheFile, tmpFile, scanner, environ, litter, budget>>

\* ------------------------------------------------------------------------
\* A second process
\* ------------------------------------------------------------------------

\* The second process builds a scanner and starts a loop over scan().
PeerStart(locs) ==
    /\ peer.pc = "none"
    /\ ~ConstructionRaises(environ, cacheFile)
    /\ peer' = [NoPeer EXCEPT !.pc = "ready", !.locations = locs,
                              !.working_cache = NewScanner(environ, cacheFile).working_cache,
                              !.file0 = cacheFile]
    /\ UNCHANGED <<fs, cacheFile, tmpFile, scanner, gen, consumer, probe, session, environ,
                   litter, budget>>

\* The body of the loop of its scan() for the outcome out.
PeerStore(path, stored, out) ==
    IF out.raised # ""
    THEN peer' = [peer EXCEPT !.pc = "finally"]
    ELSE peer' = [peer EXCEPT
            !.non_cacheable_paths = IF out.nocache THEN @ \cup {path} ELSE @,
            !.working_cache = IF StoreDiffers(out.value, stored)
                              THEN Put(@, path, out.value)
                              ELSE @,
            !.i = @ + 1,
            !.cache_modified =
                @ \/ (/\ StoreDiffers(out.value, stored)
                      /\ MarksModified(path, IF out.nocache
                                             THEN peer.non_cacheable_paths \cup {path}
                                             ELSE peer.non_cacheable_paths))]

\* Its scan() looks up and stores the next location; the loop takes every
\* result and goes on.
PeerScan ==
    /\ peer.pc = "ready"
    /\ peer.i <= Len(peer.locations)
    /\ \E listing \in ListingsOf(fs[peer.locations[peer.i]]) :
          PeerStore(peer.locations[peer.i],
                    Get(peer.working_cache, peer.locations[peer.i]),
                    entrypoints_for_path(peer.working_cache, peer.locations[peer.i],
                                         fs[peer.locations[peer.i]], listing))
    /\ UNCHANGED <<fs, cacheFile, tmpFile, scanner, gen, consumer, probe, session, environ,
                   litter, budget>>

\* Its scan() ends: the finally clause writes when the store was
\* modified, and mkstemp makes the temp file or fails.
PeerEnd ==
    /\ \/ peer.pc = "ready" /\ peer.i > Len(peer.locations)
       \/ peer.pc = "finally"
    /\ IF ~ShouldWrite(peer.cache_modified, locate_cache_file(environ))
       THEN peer' = [peer EXCEPT !.pc = "done"]
       ELSE \/ peer' = [peer EXCEPT !.pc = "dump", !.tmp = [partial |-> TRUE]]
            \/ peer' = [peer EXCEPT !.pc = "done"]
    /\ UNCHANGED <<fs, cacheFile, tmpFile, scanner, gen, consumer, probe, session, environ,
                   litter, budget>>

\* Its json.dump writes the document into its temp file, or fails.
PeerDump ==
    /\ peer.pc = "dump"
    /\ \/ LET after == AfterDump(cacheFile, peer.tmp,
                                  CacheData(peer.working_cache, peer.non_cacheable_paths))
          IN  /\ cacheFile' = after.target
              /\ peer' = [peer EXCEPT !.pc = "replace", !.tmp = after.tmp]
       \/ LET after == AfterDumpFailure(cacheFile, peer.tmp)
          IN  /\ cacheFile' = after.target
              /\ peer' = [peer EXCEPT !.pc = "done", !.tmp = after.tmp]
    /\ UNCHANGED <<fs, tmpFile, scanner, gen, consumer, probe, session, environ, litter, budget>>

\* Its replace(tmpname, path) renames its temp file onto the cache file,
\* or fails and leaves the temp file.
PeerReplace ==
    /\ peer.pc = "replace"
    /\ \/ LET after == AfterReplace(cacheFile, peer.tmp)
          IN  /\ cacheFile' = after.target
              /\ peer' = [peer EXCEPT !.pc = "done", !.tmp = after.tmp, !.renames = @ + 1]
              /\ UNCHANGED litter
       \/ /\ peer' = [peer EXCEPT !.pc = "done", !.tmp = NoFile]
          /\ litter' = litter + 1
          /\ UNCHANGED cacheFile
    /\ UNCHANGED <<fs, tmpFile, scanner, gen, consumer, probe, session, environ, budget>>

\* ------------------------------------------------------------------------
\* The environment: changes to the filesystem
\* ------------------------------------------------------------------------

\* A change happens between two sessions, while a session is still to
\* come that can meet it.
FsChange(p, f) ==
    /\ budget.fsops < MaxFsOps
    /\ budget.sessions < MaxSessions
    /\ gen.pc = "none"
    /\ f # fs[p]
    /\ fs' = [fs EXCEPT ![p] = f]
    /\ budget' = [budget EXCEPT !.fsops = @ + 1]
    /\ UNCHANGED <<peer, cacheFile, tmpFile, scanner, gen, consumer, probe, session, environ, litter>>

\* The modification time of a location changes, forwards or backwards.
Touch(p) == \E m \in Mtimes : FsChange(p, [fs[p] EXCEPT !.mtime = m])

\* The metadata in a location changes; its modification time does not.
Rewrite(p) == \E v \in VersionsOf(p) : FsChange(p, [fs[p] EXCEPT !.ver = v])

\* A location is removed, created or replaced by something else.
Retype(p) == \E k \in KindsOf(p) : FsChange(p, [fs[p] EXCEPT !.kind = k])

\* Something else leaves a file at the cache path that is no JSON
\* document (cut short, or written by another program).
Garble ==
    /\ budget.fsops < MaxFsOps
    /\ budget.sessions < MaxSessions
    /\ gen.pc = "none"
    /\ environ # "0"
    /\ cacheFile # Corrupt
    /\ cacheFile' = Corrupt
    /\ budget' = [budget EXCEPT !.fsops = @ + 1]
    /\ UNCHANGED <<peer, fs, tmpFile, scanner, gen, consumer, probe, session, environ, litter>>

\* The marker file is put into a location or taken out of it.
MarkerPaths == {SP1, SP3, SP4, ZIP}

SetMarker(p) == p \in MarkerPaths /\ FsChange(p, [fs[p] EXCEPT !.marker = ~@])

\* An entrypoints_for_path that stores what it returns.
StoreAfterCallPut(working_cache, path, out) ==
    IF out.raised = "" THEN Put(working_cache, path, out.value) ELSE working_cache

\* self.working_cache after entrypoints_for_path(path): the method reads
\* the store (self.working_cache.get(path)) and assigns nothing to it.
StoreAfterCall(working_cache, path, out) == working_cache

\* check_shadowing of diagnose.py, up to its loop: a scanner is made.
CheckShadowing(locs) ==
    /\ gen.pc = "none"
    /\ budget.sessions < MaxSessions
    /\ IF ConstructionRaises(environ, cacheFile)
       THEN /\ gen' = [NoGen EXCEPT !.pc = "done", !.locations = locs, !.how = "construct",
                                    !.exc = Exc("JSONDecodeError")]
            /\ consumer' = [NoConsumer EXCEPT !.query = [kind |-> "check_shadowing"],
                                              !.status = "raised",
                                              !.exc = Exc("JSONDecodeError")]
            /\ UNCHANGED scanner
       ELSE /\ scanner' = NewScanner(environ, cacheFile)
            /\ gen' = [NoGen EXCEPT !.pc = "direct", !.locations = locs]
            /\ consumer' = [NoConsumer EXCEPT !.query = [kind |-> "check_shadowing"]]
    /\ session' = [NoSession EXCEPT !.file0 = cacheFile, !.prev = session.prev]
    /\ probe' = NoProbe
    /\ budget' = [budget EXCEPT !.sessions = @ + 1]
    /\ UNCHANGED <<peer, fs, cacheFile, tmpFile, environ, litter>>

\* The loop of check_shadowing: entrypoints_for_path is called for the
\* next path, not through scan(), and the distributions of the result are
\* filed under their names (a result of None cannot be subscripted); after
\* the last path, the names found more than once are reported.
CheckShadowingLoop ==
    /\ gen.pc = "direct"
    /\ \/ /\ gen.i <= Len(gen.locations)
          /\ \E path \in {gen.locations[gen.i]} :
             \E stored \in {Get(scanner.working_cache, path)} :
             \E out \in {entrypoints_for_path(scanner.working_cache, path, fs[path], listing) :
                            listing \in ListingsOf(fs[path])} :
             \E exc \in {IF out.raised # "" THEN out.raised
                          ELSE IF out.value = None THEN "TypeError" ELSE ""} :
                    /\ probe' = [path |-> path, path_cache |-> stored, f |-> fs[path],
                                 out |-> out,
                                 has_entry |-> path \in DOMAIN scanner.working_cache]
                    /\ scanner' = [scanner EXCEPT
                           !.non_cacheable_paths = IF out.nocache THEN @ \cup {path} ELSE @,
                           !.working_cache = StoreAfterCall(@, path, out)]
                    /\ session' = [session EXCEPT
                           !.processed = Append(@, [path |-> path, value |-> out.value,
                                                    stored |-> stored])]
                    /\ IF exc # ""
                       THEN /\ gen' = [gen EXCEPT !.pc = "done", !.how = "raised",
                                                  !.exc = Exc(exc)]
                            /\ consumer' = [consumer EXCEPT !.status = "raised",
                                                            !.exc = Exc(exc)]
                       ELSE /\ gen' = [gen EXCEPT !.i = @ + 1, !.value = out.value]
                            /\ consumer' = [consumer EXCEPT
                                   !.acc = @ \o [k \in 1..Len(out.value.distributions) |->
                                                   [path |-> path,
                                                    name |-> out.value.distributions[k].name]]]
       \/ /\ gen.i > Len(gen.locations)
          /\ gen' = [gen EXCEPT !.pc = "done", !.how = "exhausted"]
          /\ consumer' = [consumer EXCEPT
                 !.status = "returned",
                 !.result = [value |-> \E j, k \in 1..Len(consumer.acc) :
                                          j # k /\ consumer.acc[j].name = consumer.acc[k].name]]
          /\ UNCHANGED <<scanner, probe, session>>
    /\ UNCHANGED <<peer, fs, cacheFile, tmpFile, environ, litter, budget>>

\* ------------------------------------------------------------------------
\* The specification
\* ------------------------------------------------------------------------

InitFs ==
    [p \in Paths |->
        [kind |-> CASE p = SP1 -> "dir" [] p = SP2 -> "dir" [] p = SP3 -> "dir"
                    [] p = SP4 -> "dir" [] p = ZIP -> "zip" [] p = EGG -> "dir",
         mtime |-> 1,
         ver |-> CASE p = SP1 -> 1 [] p = SP2 -> 2 [] p = SP3 -> 4 [] p = SP4 -> 6
                   [] p = ZIP -> 1 [] p = EGG -> 1,
         marker |-> FALSE]]

Init ==
    /\ fs = InitFs
    /\ cacheFile = NoFile
    /\ tmpFile = NoFile
    /\ scanner = NewScanner("0", NoFile)
    /\ gen = NoGen
    /\ consumer = NoConsumer
    /\ probe = NoProbe
    /\ session = NoSession
    /\ environ \in {CachePath, "0"}
    /\ litter = 0
    /\ budget = [sessions |-> 0, fsops |-> 0]
    /\ peer = NoPeer

\* The steps of the program and of its environment, for the sessions
\* given (<<query, locations>>) and changes to the paths given.
Step(sessions, paths) ==
    \/ \E s \in sessions, fresh \in BOOLEAN : Start(s[1], s[2], fresh)
    \/ ScanNext
    \/ ScanEnd
    \/ Consume
    \/ LoopContinue
    \/ LoopBreak
    \/ LoopRaise
    \/ FinallySkip
    \/ WriteBegin
    \/ DumpDone
    \/ DumpFail
    \/ ReplaceDone
    \/ ReplaceFail
    \/ Release
    \/ \E p \in paths : Touch(p)
    \/ \E p \in paths : Rewrite(p)
    \/ \E p \in paths : Retype(p)
    \/ \E p \in paths : SetMarker(p)

\* The cache: sessions over a directory, a zip archive and an egg.
CacheSessions ==
    {<<Iterate, <<ZIP, EGG, SP1>> >>,
     <<GetSingle(G, NA), <<SP1>> >>,
     <<GetSingle(G, NA), <<ZIP, EGG, SP1>> >>}

CachePaths == {SP1, ZIP, EGG}

Next == Step(CacheSessions, CachePaths)

Spec == Init /\ [][Next]_vars

\* The queries: sessions over two directories, in both orders.
QueryQueries ==
    {Iterate, GetSingle(G, NA), GetSingle(G, NC), GetSingle(K, NA), GetSingle(K, NB),
     GetGroupAll(G), GetGroupNamed(G)}

QueryLists == {<<SP1, SP2>>, <<SP2, SP1>>}

QueryPaths == {SP1, SP2}

QNext == Step(QueryQueries \X QueryLists, QueryPaths)

QSpec == Init /\ [][QNext]_vars

\* rebuild_cache: scan() sessions and calls of rebuild_cache over a
\* directory, an egg and a zip archive, with a cache file that can be
\* spoilt.
RebuildSessions == {<<Iterate, <<EGG, SP1>> >>, <<GetSingle(G, NA), <<SP1>> >>}

RNext ==
    \/ \E s \in RebuildSessions, fresh \in BOOLEAN : Start(s[1], s[2], fresh)
    \/ ScanNext
    \/ ScanEnd
    \/ Consume
    \/ LoopContinue
    \/ LoopBreak
    \/ FinallySkip
    \/ WriteBegin
    \/ DumpDone
    \/ DumpFail
    \/ ReplaceDone
    \/ ReplaceFail
    \/ \E add_locations \in {<<>>, <<EGG, SP1>>}, fresh \in BOOLEAN :
          RebuildStart(add_locations, fresh)
    \/ RebuildNext
    \/ RebuildWrite
    \/ Release
    \/ Rewrite(EGG)
    \/ Retype(EGG)
    \/ SetMarker(SP1)
    \/ Garble

RSpec == Init /\ [][RNext]_vars

\* Two processes: each runs one loop over scan() with its own scanner,
\* on a filesystem that does not change, with the cache file of an
\* earlier session or none.
RaceFiles ==
    {NoFile,
     [doc |-> Put(EmptyDict, EGG, EntrypointsForPath(None, EGG, InitFs[EGG], <<>>).value)]}

RaceLists == {<<EGG, SP1>>, <<SP1>>, <<ZIP, EGG>>}

RaceInit ==
    /\ fs = InitFs
    /\ cacheFile \in RaceFiles
    /\ tmpFile = NoFile
    /\ scanner = NewScanner("0", NoFile)
    /\ gen = NoGen
    /\ consumer = NoConsumer
    /\ probe = NoProbe
    /\ session = NoSession
    /\ environ = CachePath
    /\ litter = 0
    /\ budget = [sessions |-> 0, fsops |-> 0]
    /\ peer = NoPeer

RaceNext ==
    \/ \E locs \in RaceLists : Start(Iterate, locs, TRUE)
    \/ ScanNext
    \/ ScanEnd
    \/ LoopContinue
    \/ LoopBreak
    \/ FinallySkip
    \/ WriteBegin
    \/ DumpDone
    \/ DumpFail
    \/ ReplaceDone
    \/ ReplaceFail
    \/ \E locs \in RaceLists : PeerStart(locs)
    \/ PeerScan
    \/ PeerEnd
    \/ PeerDump
    \/ PeerReplace

RaceSpec == RaceInit /\ [][RaceNext]_vars

\* Malformed declarations: the queries over the directory that has them,
\* alone and before another directory.
MalformedSpec ==
    Init /\ [][Step({Iterate, GetSingle(G, NA), GetSingle(G, NQ), GetSingle(K, NA),
                      GetSingle(G, NU), GetGroupAll(G), GetGroupNamed(G), GetGroupNamed(K)}
                         \X {<<SP3>>, <<SP3, SP1>>},
                     {SP3})]_vars

\* The order of a result: the queries over the directory whose metadata
\* files the globs can enumerate in more than one order.
OrderSpec ==
    Init /\ [][Step({Iterate, GetSingle(G, NA), GetSingle(G, <<"A">>), GetGroupAll(G),
                      GetGroupNamed(G)}
                         \X {<<SP4>>, <<SP4, SP1>>},
                     {SP4})]_vars

\* One session after another: sessions with a scanner of their own over
\* one list that has a zip archive, an egg and a directory, each of which
\* can be something else or nothing, each session noted for the next.
ConvergeSpec ==
    Init /\ [][\/ \E q \in {Iterate, GetSingle(G, NA)} : Start(q, <<ZIP, EGG, SP3>>, TRUE)
                \/ ScanNext
                \/ ScanEnd
                \/ Consume
                \/ LoopContinue
                \/ LoopBreak
                \/ FinallySkip
                \/ WriteBegin
                \/ DumpDone
                \/ DumpFail
                \/ ReplaceDone
                \/ ReplaceFail
                \/ ReleaseNoted
                \/ Retype(ZIP)
                \/ Retype(EGG)
                \/ Retype(SP3)
                \/ SetMarker(SP3)]_vars

\* Calls of entrypoints_for_path that do not go through scan(): runs of
\* check_shadowing between the queries and loops over scan() that fill the
\* cache file.
DiagnoseSpec ==
    Init /\ [][\/ \E q \in {Iterate, GetSingle(G, NA), GetSingle(G, NC)} :
                      Start(q, <<ZIP, SP1, EGG>>, TRUE)
                \/ CheckShadowing(<<ZIP, SP1, EGG>>)
                \/ CheckShadowingLoop
                \/ ScanNext
                \/ ScanEnd
                \/ Consume
                \/ LoopContinue
                \/ LoopBreak
                \/ FinallySkip
                \/ WriteBegin
                \/ DumpDone
                \/ DumpFail
                \/ ReplaceDone
                \/ ReplaceFail
                \/ Release
                \/ Touch(SP1)
                \/ Retype(ZIP)
                \/ Retype(EGG)
                \/ SetMarker(SP1)]_vars

\* The two parsers of a reference string.  The caller holds a string and
\* hands it to EntryPoint.from_string, or a metadata file declares g.a by
\* the string and entrypoints_from_configparser reads the file.

FromString ==
    /\ consumer.query.kind = "from_string"
    /\ consumer.status = "running"
    /\ LET r == from_string(consumer.query.epstr, consumer.query.name)
       IN  consumer' = [consumer EXCEPT !.status = r.status, !.result = r.result, !.exc = r.exc]
    /\ UNCHANGED <<peer, fs, cacheFile, tmpFile, scanner, gen, probe, session, environ,
                   litter, budget>>

FromConfigparser ==
    /\ consumer.query.kind = "entrypoints_from_configparser"
    /\ consumer.status = "running"
    /\ consumer' = [consumer EXCEPT
                       !.status = "returned",
                       !.result = [value |-> entrypoints_from_configparser(
                                       {<<G, consumer.query.name, consumer.query.epstr>>})]]
    /\ UNCHANGED <<peer, fs, cacheFile, tmpFile, scanner, gen, probe, session, environ,
                   litter, budget>>

\* The strings are a module part, an object part, whitespace, a bracket
\* part and an end, each of them well-formed or not.  The parser of the
\* metadata file hands on a value without whitespace at its ends.
ParseInit ==
    /\ fs = InitFs
    /\ cacheFile = NoFile
    /\ tmpFile = NoFile
    /\ scanner = NewScanner("0", NoFile)
    /\ gen = NoGen
    /\ probe = NoProbe
    /\ session = NoSession
    /\ environ = "0"
    /\ litter = 0
    /\ budget = [sessions |-> 0, fsops |-> 0]
    /\ peer = NoPeer
    /\ \E mod \in {<<>>, <<"m">>, <<"m", ".", "n">>, <<"m", ".">>},
          obj \in {<<>>, <<":">>, <<":", "f">>, <<":", "f", ".", "g">>},
          gap \in {<<>>, <<" ">>},
          ext \in {<<>>, <<"[", "x", "]">>, <<"[", "x", ",", "y", "]">>,
                   <<"[", "x", ",", " ", "y", "]">>,
                   <<"[", " ", "x", " ", ",", " ", "y", " ", "]">>,
                   <<"[", "x", " ", ",", "y", "]">>,
                   <<"[", "]">>, <<"[", "x">>, <<"x", "]">>},
          end \in {<<>>, <<" ">>, <<"\n">>, <<"z">>},
          kind \in {"from_string", "entrypoints_from_configparser"} :
            LET epstr == mod \o obj \o gap \o ext \o end
            IN  /\ kind = "entrypoints_from_configparser" => Strip(epstr) = epstr
                /\ consumer = [NoConsumer EXCEPT
                                  !.query = [kind |-> kind, epstr |-> epstr, name |-> NA]]

ParseSpec == ParseInit /\ [][FromString \/ FromConfigparser]_vars

\* The hash-keyed cache layer (entrypoints_cache.py).  Its data for a path
\* holds, for each group, the list of the records (name, epstr,
\* distro_name, distro_version) in the order the files declare them.

\* The loop of Cache.get_single over group_data from its i-th record on.
\* The loop variable is called name, as the parameter is: from the first
\* record on, name is the name of the record at hand, and the test
\* name == name compares it with itself.  A BadEntryPoint of from_string
\* becomes a warning (err_to_warnings) and the loop goes on.
RECURSIVE Cache_get_single(_, _, _, _)
Cache_get_single(group_data, i, group, name) ==
    IF i > Len(group_data)
    THEN [status |-> "raised", result |-> None, exc |-> NoSuchEntryPoint(group, name)]
    ELSE LET name1 == group_data[i].name
             ep == from_string(group_data[i].epstr, name1)
         IN  IF name1 = name1 /\ ep.status = "returned"
             THEN [status |-> "returned",
                   result |-> [value |-> [ep.result.value
                                             EXCEPT !.distro =
                                                 [name |-> group_data[i].distro_name,
                                                  version |-> group_data[i].distro_version]]],
                   exc |-> NoExc]
             ELSE Cache_get_single(group_data, i + 1, group, name1)

\* Cache.get_single(group, name) for the data of the path:
\* data.get('groups', {}).get(group, []) is gone through.
CacheGetSingle ==
    /\ consumer.query.kind = "Cache.get_single"
    /\ consumer.status = "running"
    /\ \E r \in {Cache_get_single(IF consumer.query.group \in DOMAIN consumer.query.data.groups
                                   THEN consumer.query.data.groups[consumer.query.group]
                                   ELSE <<>>,
                                   1, consumer.query.group, consumer.query.name)} :
          consumer' = [consumer EXCEPT !.status = r.status, !.result = r.result, !.exc = r.exc]
    /\ UNCHANGED <<peer, fs, cacheFile, tmpFile, scanner, gen, probe, session, environ,
                   litter, budget>>

\* The data: group g with up to two records, each declaring a or b by a
\* reference the grammar matches or not; the caller asks for a name of a
\* group.
CacheLayerInit ==
    /\ fs = InitFs
    /\ cacheFile = NoFile
    /\ tmpFile = NoFile
    /\ scanner = NewScanner("0", NoFile)
    /\ gen = NoGen
    /\ probe = NoProbe
    /\ session = NoSession
    /\ environ = "0"
    /\ litter = 0
    /\ budget = [sessions |-> 0, fsops |-> 0]
    /\ peer = NoPeer
    /\ \E n \in 0..MaxRecords, group \in {G, K}, name \in {NA, NB, NC} :
          \E group_data \in [1..n -> [name : {NA, NB},
                                      epstr : {<<"m">>, <<"n", ":", "f">>, <<"m", ":">>},
                                      distro_name : {<<"f">>},
                                      distro_version : {<<"1">>}]] :
             consumer = [NoConsumer EXCEPT
                            !.query = [kind |-> "Cache.get_single", group |-> group,
                                       name |-> name,
                                       data |-> [groups |-> Put(EmptyDict, G, group_data)]]]

CacheLayerSpec == CacheLayerInit /\ [][CacheGetSingle]_vars

\* ------------------------------------------------------------------------
\* Properties of entrypoints_for_path
\* ------------------------------------------------------------------------

\* The last call was made for a path that is no egg, met a stored entry
\* and found a directory or a zip archive at the path.
NonEggCallWithEntry ==
    /\ probe # NoProbe
    /\ ~EndsWith(probe.path, DotEgg)
    /\ probe.has_entry
    /\ probe.path_cache # None
    /\ probe.f.kind \in {"dir", "zip"}

\* What a location holding the metadata files declares, and what a result
\* declares: <<distribution name, group, entry point name>>.
DeclaredIn(files) ==
    UNION {{<<NameVersion(f.stem).name, d[1], d[2]>> : d \in f.cp} : f \in files}

DeclaredBy(value) ==
    UNION {{<<value.distributions[i].name,
              value.distributions[i].entrypoints[j].group,
              value.distributions[i].entrypoints[j].name>> :
                j \in 1..Len(value.distributions[i].entrypoints)} :
           i \in 1..Len(value.distributions)}

\* C1: a call for a directory or a zip archive that has a stored entry
\* and whose modification time is the stored one returns the stored entry
\* and calls none of the scanning methods.
C1_CacheValidity ==
    (NonEggCallWithEntry /\ probe.f.mtime = probe.path_cache.mtime)
        => (probe.out.raised = "" /\ probe.out.called = {} /\ probe.out.value = probe.path_cache)

\* C1 for directories alone.
C1_CacheValidityOfDirectories ==
    (NonEggCallWithEntry /\ probe.f.kind = "dir" /\ probe.path_cache.isdir
                         /\ probe.f.mtime = probe.path_cache.mtime)
        => (probe.out.raised = "" /\ probe.out.called = {} /\ probe.out.value = probe.path_cache)

C1_DirectoryServedFromCache ==
    /\ NonEggCallWithEntry
    /\ probe.f.kind = "dir"
    /\ probe.f.mtime = probe.path_cache.mtime
    /\ DeclaredBy(probe.path_cache) # DeclaredIn(DirFiles(probe.f.ver))
    /\ probe.out.called = {}

\* C2: a call for a directory or a zip archive that has a stored entry
\* and whose modification time differs from the stored one scans the
\* location, returns what the location declares now, and scan() puts that
\* result in the place of the stored entry.
C2_Invalidation ==
    (NonEggCallWithEntry /\ probe.f.mtime # probe.path_cache.mtime)
        => /\ probe.out.raised = ""
           /\ probe.out.called = {probe.f.kind}
           /\ probe.out.value # None
           /\ DeclaredBy(probe.out.value) = DeclaredIn(DirFiles(probe.f.ver))
           /\ probe.out.value.mtime = probe.f.mtime
           /\ Get(scanner.working_cache, probe.path) = probe.out.value

\* C2 for directories alone.
C2_InvalidationOfDirectories ==
    (NonEggCallWithEntry /\ probe.f.kind = "dir" /\ probe.f.mtime # probe.path_cache.mtime)
        => /\ probe.out.raised = ""
           /\ probe.out.called = {"dir"}
           /\ probe.out.value # None
           /\ DeclaredBy(probe.out.value) = DeclaredIn(DirFiles(probe.f.ver))
           /\ probe.out.value.mtime = probe.f.mtime
           /\ Get(scanner.working_cache, probe.path) = probe.out.value

C2_DirectoryScannedAgain ==
    /\ NonEggCallWithEntry
    /\ probe.f.kind = "dir"
    /\ probe.f.mtime < probe.path_cache.mtime
    /\ probe.out.called = {"dir"}

QueryOverDirectoryDone ==
    /\ gen.pc = "done"
    /\ consumer.query = GetSingle(G, NA)
    /\ gen.locations = <<SP1>>
    /\ scanner.cache_file # ""
    /\ probe # NoProbe

\* The query returned the entry point G.NA that the location result value
\* holds, or raised NoSuchEntryPoint(G, NA) when value holds none.
AnsweredFrom(value) ==
    IF \E t \in DeclaredBy(value) : t[2] = G /\ t[3] = NA
    THEN /\ consumer.status = "returned"
         /\ \E i \in 1..Len(value.distributions) :
              \E j \in 1..Len(value.distributions[i].entrypoints) :
                 /\ value.distributions[i].entrypoints[j].group = G
                 /\ value.distributions[i].entrypoints[j].name = NA
                 /\ consumer.result =
                      [value |-> EntryPoint(value.distributions[i],
                                            value.distributions[i].entrypoints[j])]
    ELSE /\ consumer.status = "raised"
         /\ consumer.exc = NoSuchEntryPoint(G, NA)

\* The query's answer is what the directory declares now.
AnsweredFromDirectory ==
    /\ DeclaredBy(probe.out.value) = DeclaredIn(DirFiles(probe.f.ver))
    /\ AnsweredFrom(probe.out.value)

C4_TouchedDirectoryRaises ==
    /\ QueryOverDirectoryDone
    /\ budget.sessions = 2
    /\ probe.has_entry
    /\ probe.path_cache.mtime # probe.f.mtime
    /\ \E t \in DeclaredBy(probe.path_cache) : t[2] = G /\ t[3] = NA
    /\ consumer.exc = NoSuchEntryPoint(G, NA)

\* The session is dirty: a location that is not in non_cacheable_paths
\* gave a result that differs from the value stored for it.
Dirty ==
    \E i \in 1..Len(session.processed) :
       /\ session.processed[i].value # session.processed[i].stored
       /\ session.processed[i].path \notin scanner.non_cacheable_paths

\* C5: a session of a scanner with caching enabled begins the write of
\* the cache file at its end if and only if the session is dirty.
C5_WriteIffDirty ==
    (gen.pc = "done" /\ scanner.cache_file # "")
        => (session.flushes > 0 <=> Dirty)

\* A session in which only a location that is not to be cached gave a new
\* result has ended without a write.
C5_NonCacheableChangeNotWritten ==
    /\ gen.pc = "done"
    /\ scanner.cache_file # ""
    /\ session.flushes = 0
    /\ \E i \in 1..Len(session.processed) :
          /\ session.processed[i].value # session.processed[i].stored
          /\ session.processed[i].path \in scanner.non_cacheable_paths

C5_DirtySessionWritten ==
    /\ gen.pc = "done"
    /\ scanner.cache_file # ""
    /\ session.flushes = 1
    /\ Dirty

\* The document of the cache file holds the result of every location the
\* session processed.
EveryProcessedLocationWritten ==
    \A i \in 1..Len(session.processed) :
       /\ session.processed[i].path \in DOMAIN read_user_cache(cacheFile)
       /\ read_user_cache(cacheFile)[session.processed[i].path] = session.processed[i].value

\* The same, but for the locations in non_cacheable_paths, which the
\* document leaves out, and for a location without a stored entry whose
\* result is None, which scan() does not store.
EveryCacheableLocationWritten ==
    \A i \in 1..Len(session.processed) :
       IF session.processed[i].path \in scanner.non_cacheable_paths
       THEN session.processed[i].path \notin DOMAIN read_user_cache(cacheFile)
       ELSE \/ /\ session.processed[i].value = None
               /\ session.processed[i].stored = None
               /\ session.processed[i].path \notin DOMAIN read_user_cache(cacheFile)
            \/ /\ session.processed[i].path \in DOMAIN read_user_cache(cacheFile)
               /\ read_user_cache(cacheFile)[session.processed[i].path]
                    = session.processed[i].value

\* The claim C6 as it is stated: a dirty session writes once, however the
\* iteration ends, and the document holds every location processed.
C6_FlushOnceAsStated ==
    (gen.pc = "done" /\ scanner.cache_file # "" /\ Dirty)
        => /\ gen.how \in {"exhausted", "closed", "raised"}
           /\ session.flushes = 1
           /\ session.renames = 1 => EveryProcessedLocationWritten

\* C6: a dirty session writes once, however the iteration ends, and the
\* document holds every location processed that is cacheable and has a
\* result in the store.
C6_FlushOnce ==
    (gen.pc = "done" /\ scanner.cache_file # "" /\ Dirty)
        => /\ gen.how \in {"exhausted", "closed", "raised"}
           /\ session.flushes = 1
           /\ session.renames = 1 => EveryCacheableLocationWritten

\* entrypoints_for_path raised on a later location and the results of the
\* locations before it were written.
C6_WrittenAfterScanRaised ==
    /\ gen.pc = "done"
    /\ scanner.cache_file # ""
    /\ gen.how = "raised"
    /\ Dirty
    /\ session.flushes = 1
    /\ session.renames = 1
    /\ Len(session.processed) > 0
    /\ EveryProcessedLocationWritten

C6_WrittenAfterExhausted ==
    /\ gen.pc = "done" /\ gen.how = "exhausted" /\ Dirty /\ session.renames = 1

C6_WrittenAfterEarlyReturn ==
    /\ gen.pc = "done" /\ gen.how = "closed" /\ Dirty /\ session.renames = 1
    /\ consumer.query.kind = "get_single" /\ consumer.status = "returned"

C6_WrittenAfterConsumerRaised ==
    /\ gen.pc = "done" /\ gen.how = "closed" /\ Dirty /\ session.renames = 1
    /\ consumer.status = "raised" /\ consumer.exc = Exc("ConsumerError")

\* C7: the cache file never holds a partly written document; from the
\* start of atomic_json_dump to its rename the cache file is what it was
\* before the call; and when the call fails before the rename, the cache
\* file is what it was, the error leaves the call and, unless the
\* generator was closed by its consumer, reaches the consumer.
C7_TargetIntact ==
    /\ cacheFile = NoFile \/ DOMAIN cacheFile = {"doc"}
    /\ gen.pc \in {"dump", "replace"} => cacheFile = session.target0
    /\ (gen.pc = "done" /\ session.failed \in {"mkstemp", "dump"})
          => /\ cacheFile = session.target0
             /\ gen.werr = Exc("OSError")
             /\ gen.how # "closed"
                   => consumer.status = "raised" /\ consumer.exc = Exc("OSError")

\* The serialisation failed part-way while a cache file with another
\* document was in place, and that file is still there.
C7_FailedDumpKeepsOldFile ==
    /\ gen.pc = "done"
    /\ session.failed = "dump"
    /\ cacheFile # NoFile
    /\ cacheFile = session.target0
    /\ read_user_cache(cacheFile)
          # CacheData(scanner.working_cache, scanner.non_cacheable_paths)
    /\ consumer.exc = Exc("OSError")

C7_FailedMkstemp ==
    /\ gen.pc = "done" /\ session.failed = "mkstemp" /\ cacheFile # NoFile

\* ------------------------------------------------------------------------
\* Properties of the queries
\* ------------------------------------------------------------------------

\* The distributions of the results scan() has yielded, in the order of
\* the search path and, within a location, of its result.
RECURSIVE DistributionsOf(_)
DistributionsOf(processed) ==
    IF processed = <<>> THEN <<>>
    ELSE Head(processed).value.distributions \o DistributionsOf(Tail(processed))

\* No distribution before the i-th has its name.
FirstOfItsName(ds, i) == \A j \in 1..(i - 1) : ds[j].name # ds[i].name

\* The entry points of a group that one distribution declares.
GroupEntryPointsOf(d, group) ==
    LET eps == SelectSeq(d.entrypoints, LAMBDA e : e.group = group)
    IN  [k \in 1..Len(eps) |-> EntryPoint(d, eps[k])]

\* The entry points of a group in the distributions from the i-th on that
\* are the first of their name.
RECURSIVE UnshadowedGroup(_, _, _)
UnshadowedGroup(ds, i, group) ==
    IF i > Len(ds) THEN <<>>
    ELSE (IF FirstOfItsName(ds, i) THEN GroupEntryPointsOf(ds[i], group) ELSE <<>>)
         \o UnshadowedGroup(ds, i + 1, group)

\* The set of the elements of a sequence.
Range(seq) == {seq[i] : i \in 1..Len(seq)}

Declaring(ds, group, name) ==
    UNION {{<<i, k>> : k \in {x \in 1..Len(ds[i].entrypoints) :
                                  /\ ds[i].entrypoints[x].group = group
                                  /\ ds[i].entrypoints[x].name = name}} :
           i \in 1..Len(ds)}

\* The first of a set of places.
FirstPlace(places) ==
    CHOOSE ik \in places :
        \A x \in places : ik[1] < x[1] \/ (ik[1] = x[1] /\ ik[2] <= x[2])

\* get_single has given the answer for the set of places that count: the
\* entry point at the first of them, NoSuchEntryPoint when there is none
\* (the error of a failed write of the cache takes its place).
SingleAnswer(ds, places) ==
    IF places # {}
    THEN /\ consumer.status = "returned"
         /\ consumer.result =
              [value |-> EntryPoint(ds[FirstPlace(places)[1]],
                                    ds[FirstPlace(places)[1]].entrypoints[FirstPlace(places)[2]])]
    ELSE /\ consumer.status = "raised"
         /\ consumer.result = None
         /\ gen.werr = NoExc
               => consumer.exc = NoSuchEntryPoint(consumer.query.group, consumer.query.name)

C9_ShadowedEntryNotFound ==
    /\ gen.pc = "done"
    /\ consumer.query.kind = "get_single"
    /\ consumer.exc = NoSuchEntryPoint(consumer.query.group, consumer.query.name)
    /\ Declaring(DistributionsOf(session.processed),
                 consumer.query.group, consumer.query.name) # {}

IsDotted(t) ==
    /\ Len(t) >= 1
    /\ \A i \in 1..Len(t) : t[i] \in WordChars \cup {"."}
    /\ t[1] # "."
    /\ t[Len(t)] # "."
    /\ \A i \in 1..(Len(t) - 1) : ~(t[i] = "." /\ t[i + 1] = ".")

\* The ways to read s by the grammar of a reference: a dotted module name
\* s[1..a], then nothing or ":" and a dotted object name up to b, then
\* whitespace up to c, then nothing or a bracket pair that holds at least
\* one character and ends s.
GrammarParts(s) ==
    {p \in (1..Len(s)) \X (1..Len(s)) \X (1..Len(s)) :
        /\ p[1] <= p[2]
        /\ p[2] <= p[3]
        /\ IsDotted(SubSeq(s, 1, p[1]))
        /\ \/ p[2] = p[1]
           \/ /\ p[2] >= p[1] + 2
              /\ s[p[1] + 1] = ":"
              /\ IsDotted(SubSeq(s, p[1] + 2, p[2]))
        /\ \A i \in (p[2] + 1)..p[3] : s[i] \in SpaceChars
        /\ \/ p[3] = Len(s)
           \/ /\ p[3] + 3 <= Len(s)
              /\ s[p[3] + 1] = "["
              /\ s[Len(s)] = "]"}

WellFormed(s) == GrammarParts(s) # {}

\* The records a metadata file declares by well-formed references:
\* <<group, name, module name, object name>>.
WellFormedRecords(file) ==
    UNION {{<<d[1], d[2], SubSeq(d[3], 1, p[1]),
              IF p[2] > p[1] THEN SubSeq(d[3], p[1] + 2, p[2]) ELSE NoneStr>> :
                p \in GrammarParts(d[3])} : d \in file.cp}

RecordsOf(distro) ==
    {<<e.group, e.name, e.module_name, e.object_name>> : e \in Range(distro.entrypoints)}

\* The metadata files of the locations of a list, as they are on disk.
FilesOf(locations) ==
    UNION {IF fs[p].kind = "dir" THEN DirFiles(fs[p].ver) ELSE {} : p \in Range(locations)}

\* The names a group has by well-formed references in those files.
WellFormedNames(files, group) ==
    UNION {{d[2] : d \in {e \in f.cp : e[1] = group /\ WellFormed(e[3])}} : f \in files}

\* The search path holds directories alone, and no two distributions of
\* one name: nothing is shadowed.
PlainDirectories(locations) ==
    /\ \A p \in Range(locations) : fs[p].kind \in {"dir", "missing"}
    /\ \A f1, f2 \in FilesOf(locations) :
          NameVersion(f1.stem).name = NameVersion(f2.stem).name => f1 = f2

\* No result of the session came from the store.
NothingFromStore == \A i \in 1..Len(session.processed) : session.processed[i].stored = None

C11_MalformedNameNotFound ==
    /\ gen.pc = "done"
    /\ consumer.query = GetSingle(G, NU)
    /\ \E f \in FilesOf(gen.locations) :
          \E d \in f.cp : d[1] = G /\ d[2] = NU /\ ~WellFormed(d[3])
    /\ consumer.exc = NoSuchEntryPoint(G, NU)

\* ------------------------------------------------------------------------
\* Properties of a disabled cache
\* ------------------------------------------------------------------------

\* The last call was made by a query for a directory or a zip archive on
\* the search path.
QueryCallForLocation ==
    /\ probe # NoProbe
    /\ consumer.query.kind # "iter"
    /\ ~EndsWith(probe.path, DotEgg)
    /\ probe.f.kind \in {"dir", "zip"}

\* Nothing was written at the cache path or next to it.
NoCacheFileWritten ==
    /\ cacheFile = NoFile
    /\ tmpFile = NoFile
    /\ litter = 0
    /\ session.flushes = 0

\* C12: with ENTRYPOINTS_CACHE_FILE set to '0' no cache file is created
\* or written, and every call a query makes for a location returns what
\* the location declares now, whatever its modification time.
C12_CacheDisabled ==
    environ = "0"
        => /\ NoCacheFileWritten
           /\ QueryCallForLocation
                 => /\ probe.out.raised = ""
                    /\ probe.out.value # None
                    /\ DeclaredBy(probe.out.value) = DeclaredIn(DirFiles(probe.f.ver))

\* C12 for directories alone.
C12_CacheDisabledOfDirectories ==
    environ = "0"
        => /\ NoCacheFileWritten
           /\ (QueryCallForLocation /\ probe.f.kind = "dir")
                 => /\ probe.out.raised = ""
                    /\ probe.out.value # None
                    /\ DeclaredBy(probe.out.value) = DeclaredIn(DirFiles(probe.f.ver))

\* The second query of a process without a cache reads a directory whose
\* metadata has changed while its modification time has not.
C12_ChangeSeenAtOnce ==
    /\ environ = "0"
    /\ QueryCallForLocation
    /\ probe.f.kind = "dir"
    /\ budget.sessions = 2
    /\ probe.f.mtime = InitFs[probe.path].mtime
    /\ probe.f.ver # InitFs[probe.path].ver
    /\ DeclaredBy(probe.out.value) = DeclaredIn(DirFiles(probe.f.ver))
    /\ DeclaredBy(probe.out.value) # DeclaredIn(DirFiles(InitFs[probe.path].ver))

\* C13: with ENTRYPOINTS_CACHE_FILE set to '0' the store of a scanner has
\* no entries at any time, and no entrypoints_for_path call meets an
\* entry of it or is answered from it.
C13_StoreAlwaysEmpty ==
    environ = "0"
        => /\ scanner.working_cache = EmptyDict
           /\ probe # NoProbe => (~probe.has_entry /\ probe.out.called # {})

\* A scanner without a cache file runs scan() a second time and answers
\* from its store, for a directory that declares something else by now.
C13_AnsweredFromStoreWithoutCache ==
    /\ environ = "0"
    /\ scanner.cache_file = ""
    /\ probe # NoProbe
    /\ probe.has_entry
    /\ ~EndsWith(probe.path, DotEgg)
    /\ probe.f.kind = "dir"
    /\ probe.out.called = {}
    /\ probe.out.value = probe.path_cache
    /\ DeclaredBy(probe.out.value) # DeclaredIn(DirFiles(probe.f.ver))

\* ------------------------------------------------------------------------
\* Properties of paths that do not exist
\* ------------------------------------------------------------------------

\* C15: a call for a path that does not exist, egg or not, with a stored
\* entry or without, returns Missing and raises nothing, and scan() has
\* Missing in the store for the path afterwards.
C15_MissingPath ==
    (probe # NoProbe /\ probe.f.kind = "missing")
        => /\ probe.out.raised = ""
           /\ probe.out.value = Missing
           /\ Get(scanner.working_cache, probe.path) = Missing

\* C15 for paths that are no eggs.
C15_MissingPathNoEgg ==
    (probe # NoProbe /\ probe.f.kind = "missing" /\ ~EndsWith(probe.path, DotEgg))
        => /\ probe.out.raised = ""
           /\ probe.out.value = Missing
           /\ Get(scanner.working_cache, probe.path) = Missing

\* A directory with a stored entry is gone: Missing takes the entry's place.
C15_MissingDirectoryStored ==
    /\ probe # NoProbe
    /\ probe.f.kind = "missing"
    /\ ~EndsWith(probe.path, DotEgg)
    /\ probe.has_entry
    /\ probe.path_cache # Missing
    /\ Get(scanner.working_cache, probe.path) = Missing

\* The call for an egg that does not exist and has no stored entry raises.
C15_MissingEggRaises ==
    /\ probe # NoProbe
    /\ probe.f.kind = "missing"
    /\ EndsWith(probe.path, DotEgg)
    /\ ~probe.has_entry
    /\ probe.out.raised # ""

\* The call for an egg that does not exist and has a stored entry returns
\* the entry.
C15_MissingEggFromStore ==
    /\ probe # NoProbe
    /\ probe.f.kind = "missing"
    /\ EndsWith(probe.path, DotEgg)
    /\ probe.has_entry
    /\ probe.out.value = probe.path_cache
    /\ probe.out.value # Missing

\* ------------------------------------------------------------------------
\* Properties of the no-cache marker and of rebuild_cache
\* ------------------------------------------------------------------------

\* The last call scanned a directory or a zip archive that holds the
\* marker file.
MarkedLocationScanned ==
    /\ probe # NoProbe
    /\ probe.f.marker
    /\ probe.out.called \cap {"dir", "zip"} # {}
    /\ probe.out.raised = ""

\* The entry points of a result that a get_single for group and name accepts.
Accepted(value, group, name) ==
    {d \in DeclaredBy(value) : d[2] = group /\ d[3] = name}

C14_MarkedDirectoryLeftOutByRebuild ==
    /\ consumer.query.kind = "rebuild_cache"
    /\ session.renames = 1
    /\ fs[SP1].marker
    /\ SP1 \in DOMAIN session.before
    /\ SP1 \in scanner.non_cacheable_paths
    /\ SP1 \in DOMAIN scanner.working_cache
    /\ SP1 \notin DOMAIN cacheFile.doc

\* A query has returned an entry point of a directory with the marker file.
C14_MarkedDirectoryUsedByQuery ==
    /\ MarkedLocationScanned
    /\ consumer.query.kind = "get_single"
    /\ consumer.status = "returned"
    /\ gen.pc = "done"

\* ------------------------------------------------------------------------
\* Properties of the cache file read at construction
\* ------------------------------------------------------------------------

\* C16: no query, scan() session or rebuild_cache ends with an exception
\* raised by the construction of its scanner, whatever is at the cache
\* path: with no file there and with a file that is no JSON document the
\* scanner is built, with an empty store.
C16_ConstructionNeverFails ==
    /\ gen.how # "construct"
    /\ consumer.exc # Exc("JSONDecodeError")

\* C16 for a cache path with no file: a scanner built then has an empty
\* store, and its session begins.
C16_AbsentFileEmptyStore ==
    [][(gen.pc = "none" /\ gen'.pc # "none" /\ cacheFile = NoFile /\ scanner' # scanner)
          => (gen'.how # "construct" /\ scanner'.working_cache = EmptyDict)]_vars

\* A query meets a cache file that is no JSON document: JSONDecodeError
\* leaves the query, and no location is scanned.
C16_CorruptFileRaises ==
    /\ cacheFile = Corrupt
    /\ consumer.query.kind = "get_single"
    /\ consumer.status = "raised"
    /\ consumer.exc = Exc("JSONDecodeError")
    /\ session.processed = <<>>

\* rebuild_cache has gone through its loop.
RebuildLoopDone ==
    /\ consumer.query.kind = "rebuild_cache"
    /\ gen.how = "rebuild"
    /\ gen.pc \in {"dump", "replace", "done"}
    /\ gen.exc = NoExc

\* The paths rebuild_cache is to keep: those of the store before the call
\* and the added ones, as far as they exist.
RebuildKeys ==
    {p \in DOMAIN session.before \cup Range(consumer.query.add_locations) :
        fs[p].kind # "missing"}

\* What a scan of the path returns for a scanner whose store is empty.
FreshResults(p) ==
    {EntrypointsForPath(None, p, fs[p], listing).value : listing \in ListingsOf(fs[p])}

\* C17: in a rebuild_cache of a scanner with a cache file, every call of
\* entrypoints_for_path meets no stored entry and scans, also for an egg;
\* after the loop the keys of the store are the paths stored before and
\* the added locations that exist, each with the result of a scan made
\* with an empty store; and write_user_cache is called once, so that,
\* unless the write fails, the cache file holds the cacheable part of the
\* new store, whether the store has changed or not.
C17_RebuildCache ==
    /\ (consumer.query.kind = "rebuild_cache" /\ probe # NoProbe)
          => /\ probe.path_cache = None
             /\ ~probe.has_entry
             /\ probe.out.called # {}
    /\ RebuildLoopDone
          => /\ DOMAIN scanner.working_cache = RebuildKeys
             /\ \A p \in RebuildKeys : scanner.working_cache[p] \in FreshResults(p)
             /\ session.flushes = 1
    /\ (RebuildLoopDone /\ gen.pc = "done" /\ session.failed = "")
          => /\ session.renames = 1
             /\ cacheFile = [doc |-> CacheData(scanner.working_cache,
                                               scanner.non_cacheable_paths)]

\* A rebuild_cache that changes nothing writes the cache file: the store
\* and the file are what they were before the call.
C17_UnchangedStoreWritten ==
    /\ RebuildLoopDone
    /\ gen.pc = "done"
    /\ session.renames = 1
    /\ session.before # EmptyDict
    /\ scanner.working_cache = session.before
    /\ cacheFile = session.target0

\* A rebuild_cache scans an egg again whose stored entry is out of date,
\* and drops the entry of a path that is gone.
C17_StaleEggScannedAgain ==
    /\ RebuildLoopDone
    /\ EGG \in DOMAIN session.before
    /\ EGG \in DOMAIN scanner.working_cache
    /\ scanner.working_cache[EGG] # session.before[EGG]

C17_VanishedPathDropped ==
    /\ RebuildLoopDone
    /\ EGG \in DOMAIN session.before \cap Range(consumer.query.add_locations)
    /\ EGG \notin DOMAIN scanner.working_cache

\* rebuild_cache of a scanner without a cache file raises RuntimeError.
C17_RebuildWithoutCacheFile ==
    /\ consumer.query.kind = "rebuild_cache"
    /\ scanner.cache_file = ""
    /\ consumer.exc = Exc("RuntimeError")

\* A mapping from paths to results has the 'no data' sentinel for an egg.
HasSentinel(d) == \E p \in DOMAIN d : EndsWith(p, DotEgg) /\ d[p] = None

\* C18: neither the store nor a document written to the temp file or to
\* the cache file maps the path of an egg to the sentinel None that
\* entrypoints_from_egg returns for a zip archive without
\* EGG-INFO/entry_points.txt.
C18_SentinelNeverCached ==
    /\ ~HasSentinel(scanner.working_cache)
    /\ "doc" \in DOMAIN tmpFile => ~HasSentinel(tmpFile.doc)
    /\ "doc" \in DOMAIN cacheFile => ~HasSentinel(cacheFile.doc)

\* rebuild_cache has written a cache file that maps the egg to the sentinel.
C18_SentinelWrittenByRebuild ==
    /\ consumer.query.kind = "rebuild_cache"
    /\ session.renames = 1
    /\ fs[EGG].kind = "zip"
    /\ ~EggInfo(fs[EGG].ver).present
    /\ EGG \in DOMAIN cacheFile.doc
    /\ cacheFile.doc[EGG] = None

\* scan() has yielded the sentinel for the egg and has not stored it.
C18_SentinelNotStoredByScan ==
    /\ consumer.query.kind = "iter"
    /\ probe # NoProbe
    /\ probe.path = EGG
    /\ probe.out.value = None
    /\ probe.out.called = {"egg"}
    /\ EGG \notin DOMAIN scanner.working_cache

\* ------------------------------------------------------------------------
\* Properties of two processes on one cache file
\* ------------------------------------------------------------------------

\* The documents the two sessions hand to atomic_json_dump.
MainDoc == CacheData(scanner.working_cache, scanner.non_cacheable_paths)

PeerDoc == CacheData(peer.working_cache, peer.non_cacheable_paths)

\* A step in which the rename of one session puts that session's
\* document in the place of the cache file, and the other session does
\* nothing.
MainRenames ==
    /\ gen.pc = "replace"
    /\ gen'.pc = "done"
    /\ session'.renames = session.renames + 1
    /\ cacheFile' = [doc |-> MainDoc]
    /\ scanner' = scanner
    /\ peer' = peer

PeerRenames ==
    /\ peer.pc = "replace"
    /\ peer'.pc = "done"
    /\ peer'.renames = peer.renames + 1
    /\ cacheFile' = [doc |-> PeerDoc]
    /\ peer'.working_cache = peer.working_cache
    /\ <<scanner, gen, session>>' = <<scanner, gen, session>>

\* Both sessions have ended, each after its rename.
BothFlushed ==
    /\ gen.pc = "done"
    /\ peer.pc = "done"
    /\ session.renames = 1
    /\ peer.renames = 1

\* C19: the cache file is absent or a whole document at every moment, it
\* changes only in the rename of one of the two sessions, which makes it
\* that session's document, and when both sessions have ended after their
\* renames it is the document of one of them: of the one that renamed last.
C19_LastRenameWins ==
    /\ [](cacheFile = NoFile \/ DOMAIN cacheFile = {"doc"})
    /\ [](BothFlushed => cacheFile \in {[doc |-> MainDoc], [doc |-> PeerDoc]})
    /\ [][cacheFile' # cacheFile => (MainRenames \/ PeerRenames)]_vars

\* Two sessions that began with the same cache file have both renamed,
\* their documents differ, and the file is the second process's.
C19_SecondRenameOverFirst ==
    /\ BothFlushed
    /\ session.file0 = peer.file0
    /\ MainDoc # PeerDoc
    /\ cacheFile = [doc |-> PeerDoc]
    /\ cacheFile # session.target0

\* C20 as stated: two sessions that began with the same cache file and
\* have both renamed wrote the same document, so that the cache file has
\* every path either of them stored.
C20_ConvergeAsStated ==
    (BothFlushed /\ session.file0 = peer.file0)
        => /\ MainDoc = PeerDoc
           /\ DOMAIN MainDoc \cup DOMAIN PeerDoc \subseteq DOMAIN cacheFile.doc

\* C20: two sessions that began with the same cache file, went through
\* the same list of locations to its end and have both renamed wrote the
\* same document, and the cache file is that document.
C20_Converge ==
    (BothFlushed /\ session.file0 = peer.file0
                 /\ gen.locations = peer.locations /\ gen.how = "exhausted")
        => /\ MainDoc = PeerDoc
           /\ cacheFile = [doc |-> MainDoc]

\* Two such sessions over the same list, begun with a cache file that
\* lacks one of its locations.
C20_SameListsSameDocument ==
    /\ BothFlushed
    /\ session.file0 = peer.file0
    /\ session.file0 # NoFile
    /\ gen.locations = peer.locations
    /\ gen.how = "exhausted"
    /\ cacheFile = [doc |-> MainDoc]
    /\ cacheFile # session.file0

\* Two sessions over different lists: the path one of them stored is not
\* in the cache file.
C20_EntryLost ==
    /\ BothFlushed
    /\ session.file0 = peer.file0
    /\ \E p \in DOMAIN MainDoc : p \notin DOMAIN cacheFile.doc

\* ------------------------------------------------------------------------
\* Properties of a failed atomic_json_dump
\* ------------------------------------------------------------------------

\* C21: when a step of atomic_json_dump has failed, the writing of the
\* temp file or the rename onto the cache file, no temp file of the call
\* is left in the cache directory and the error has left the call.
C21_NoTempFileLeft ==
    session.failed # ""
        => /\ tmpFile = NoFile
           /\ litter = 0
           /\ gen.werr # NoExc

\* C21 for a failure before the rename.
C21_NoTempFileLeftBeforeRename ==
    [][(session.failed = "" /\ session'.failed \in {"mkstemp", "dump"})
          => /\ tmpFile' = NoFile
             /\ litter' = litter
             /\ gen'.werr # NoExc]_vars

\* json.dump has failed: the temp file is gone and the error raised.
C21_FailedDumpUnlinked ==
    /\ session.failed = "dump"
    /\ tmpFile = NoFile
    /\ litter = 0
    /\ gen.werr = Exc("OSError")

\* The rename has failed: the temp file stays in the cache directory.
C21_FailedRenameLeavesTempFile ==
    /\ session.failed = "replace"
    /\ litter = 1
    /\ gen.werr = Exc("OSError")


\* ------------------------------------------------------------------------
\* Zip archives
\* ------------------------------------------------------------------------

\* The members of an archive that are metadata files at exactly one
\* directory level of nesting.
MetadataMembers(infolist) ==
    {i \in 1..Len(infolist) :
        /\ \/ EndsWith(infolist[i].filename, DistInfoSuffix)
           \/ EndsWith(infolist[i].filename, EggInfoSuffix)
        /\ Count(infolist[i].filename, "/") = 1}

\* C22: a scan of a zip archive that is no egg returns one distribution
\* for every member that is a metadata file at one level of nesting, with
\* the name and version of the member's top-level segment.
C22_ZipMembers ==
    (probe # NoProbe /\ probe.out.called = {"zip"})
        => LET infolist == ZipInfolist(probe.f.ver, probe.f.marker)
               members == MetadataMembers(infolist)
               ds == probe.out.value.distributions
           IN  /\ Len(ds) = Cardinality(members)
               /\ \A i \in members :
                    \E j \in 1..Len(ds) :
                        LET nv == NameVersion(RSplitHead(Split(infolist[i].filename, "/")[1], "."))
                        IN  ds[j].name = nv.name /\ ds[j].version = nv.version

\* A scan of an archive with a metadata file returns no distribution.
C22_ZipScanFindsNothing ==
    /\ probe # NoProbe
    /\ probe.out.called = {"zip"}
    /\ MetadataMembers(ZipInfolist(probe.f.ver, probe.f.marker)) # {}
    /\ probe.out.value.distributions = <<>>


\* ------------------------------------------------------------------------
\* The order of a result
\* ------------------------------------------------------------------------

\* The last call scanned a directory or a zip archive.
FreshScan ==
    /\ probe # NoProbe
    /\ probe.out.raised = ""
    /\ probe.out.called \in {{"dir"}, {"zip"}}

\* (group, name) of the record a before (group, name) of the record b.
GroupNameLess(a, b) ==
    \/ StrLess(a.group, b.group)
    \/ a.group = b.group /\ StrLess(a.name, b.name)

\* C23: the result of a fresh scan of a directory or a zip archive has
\* its distributions in non-decreasing order of the key 'name-version',
\* and the entry points of every distribution in the order of
\* (group, name).
C23_Sorted ==
    FreshScan
        => LET ds == probe.out.value.distributions
           IN  /\ \A i \in 1..(Len(ds) - 1) :
                     ~StrLess(DistroKey(ds[i + 1]), DistroKey(ds[i]))
               /\ \A i \in 1..Len(ds) :
                     \A j \in 1..(Len(ds[i].entrypoints) - 1) :
                         ~GroupNameLess(ds[i].entrypoints[j + 1], ds[i].entrypoints[j])

\* A scan of the directory with two distributions the glob can find in
\* either order, one of them with several names in two groups.
C23_TwoDistributionsTwoGroups ==
    /\ FreshScan
    /\ probe.f.ver = 7
    /\ LET ds == probe.out.value.distributions
       IN  /\ Len(ds) = 2
           /\ StrLess(DistroKey(ds[1]), DistroKey(ds[2]))
           /\ Len(ds[2].entrypoints) = 4
           /\ ds[2].entrypoints[1].group # ds[2].entrypoints[4].group


\* The results a scan of the location of the last call can return: one
\* for every order in which the directory or the archive can enumerate
\* its metadata files.
ScansOfProbe ==
    IF probe.f.kind = "dir"
    THEN {entrypoints_from_dir(l, probe.f.mtime) : l \in Listings(DirFiles(probe.f.ver))}
    ELSE LET il == ZipInfolist(probe.f.ver, probe.f.marker)
         IN  {entrypoints_from_zip(probe.path, o, probe.f.mtime) :
                 o \in Orders({il[i] : i \in 1..Len(il)})}

\* C24: a fresh scan of a location returns the result every other fresh
\* scan of the unchanged location returns, whatever the order in which
\* its metadata files are enumerated.
C24_Deterministic ==
    FreshScan => ScansOfProbe = {probe.out.value}

\* C24 for a directory in which no two info directories that one glob
\* finds have the same key.
C24_DeterministicWithoutTies ==
    (/\ FreshScan
     /\ \A f1, f2 \in DirFiles(probe.f.ver) :
            (f1 # f2 /\ f1.ext = f2.ext)
                => DistroKey(NameVersion(f1.stem)) # DistroKey(NameVersion(f2.stem)))
        => ScansOfProbe = {probe.out.value}

\* Two distributions without name and version, in the order q, p.
C24_TieInFoundOrder ==
    /\ FreshScan
    /\ probe.f.ver = 6
    /\ probe.out.value.distributions[1].name = NoneStr
    /\ probe.out.value.distributions[2].name = NoneStr
    /\ probe.out.value.distributions[1].entrypoints[1].name = NB
    /\ probe.out.value.distributions[2].entrypoints[1].name = NA

\* Two distributions with different keys, found in either order.
C24_NoTieTwoOrders ==
    /\ FreshScan
    /\ probe.f.ver = 7
    /\ Cardinality(Listings(DirFiles(probe.f.ver))) = 2


\* ------------------------------------------------------------------------
\* Letter case of names
\* ------------------------------------------------------------------------

\* Two names that differ, and in letter case only.
DifferInCase(n1, n2) == n1 # n2 /\ LowerOption(n1) = LowerOption(n2)

FromStringDone == consumer.query.kind = "from_string" /\ consumer.status # "running"

\* C26: EntryPoint.from_string returns an entry point only for a string
\* that the grammar matches from its first to its last character; for
\* every other string it raises BadEntryPoint with the string and returns
\* nothing.
C26_WholeString ==
    FromStringDone
        => IF WellFormed(consumer.query.epstr)
           THEN consumer.status = "returned"
           ELSE /\ consumer.status = "raised"
                /\ consumer.exc = [type |-> "BadEntryPoint", epstr |-> consumer.query.epstr]
                /\ consumer.result = None

\* C26 for the strings that do not end in a newline after a bracket.
C26_WholeStringNoNewlineAfterBracket ==
    (/\ FromStringDone
     /\ ~EndsWith(consumer.query.epstr, <<"]", "\n">>))
        => IF WellFormed(consumer.query.epstr)
           THEN consumer.status = "returned"
           ELSE /\ consumer.status = "raised"
                /\ consumer.exc = [type |-> "BadEntryPoint", epstr |-> consumer.query.epstr]
                /\ consumer.result = None

\* A string with a newline after the bracket is taken as 'm [x]'.
C26_NewlineAfterBracketAccepted ==
    /\ FromStringDone
    /\ consumer.query.epstr = <<"m", " ", "[", "x", "]", "\n">>
    /\ consumer.status = "returned"
    /\ consumer.result.value.extras = << <<"x">> >>

\* A string with a letter after the bracket raises.
C26_LeftOverRaises ==
    /\ FromStringDone
    /\ consumer.query.epstr = <<"m", " ", "[", "x", "]", "z">>
    /\ consumer.exc = [type |-> "BadEntryPoint", epstr |-> consumer.query.epstr]


\* One of the two parsers has ended for a string the grammar matches.
ParsedWellFormed ==
    /\ consumer.query.kind \in {"from_string", "entrypoints_from_configparser"}
    /\ consumer.status # "running"
    /\ WellFormed(consumer.query.epstr)

\* What the parser made of the string: the entry point of from_string,
\* the one record of entrypoints_from_configparser.
ParsedRecord ==
    IF consumer.query.kind = "from_string"
    THEN consumer.result.value
    ELSE consumer.result.value[1]

\* The tags of the text between the brackets: the pieces between its
\* commas without the whitespace around them.
TagsOf(payload) ==
    [i \in 1..Len(Split(payload, ",")) |-> Strip(Split(payload, ",")[i])]

\* The parts of a string read by the grammar as p, as the claim has them.
PartsAsRead(s, p, rec) ==
    /\ rec.module_name = SubSeq(s, 1, p[1])
    /\ rec.object_name = (IF p[2] > p[1] THEN SubSeq(s, p[1] + 2, p[2]) ELSE NoneStr)
    /\ rec.extras = (IF p[3] = Len(s) THEN NoneList
                     ELSE TagsOf(SubSeq(s, p[3] + 2, Len(s) - 1)))

\* C27: for a string that matches the grammar, the module and object
\* names are the text before and after the colon, and the extras are null
\* without a bracketed suffix and else the list of the tags between the
\* commas, each without the whitespace around it.
C27_Parts ==
    ParsedWellFormed
        => /\ consumer.status = "returned"
           /\ consumer.result # None
           /\ consumer.query.kind = "entrypoints_from_configparser"
                 => Len(consumer.result.value) = 1
           /\ \A p \in GrammarParts(consumer.query.epstr) :
                 PartsAsRead(consumer.query.epstr, p, ParsedRecord)

\* C27 for entrypoints_from_configparser alone.
C27_PartsOfRecord ==
    (ParsedWellFormed /\ consumer.query.kind = "entrypoints_from_configparser")
        => /\ consumer.status = "returned"
           /\ Len(consumer.result.value) = 1
           /\ \A p \in GrammarParts(consumer.query.epstr) :
                 PartsAsRead(consumer.query.epstr, p, ParsedRecord)

\* C27 for from_string and a string without whitespace inside its
\* brackets other than after a comma.
C27_PartsOfEntryPoint ==
    (/\ ParsedWellFormed
     /\ consumer.query.kind = "from_string"
     /\ \A i \in 1..(Len(consumer.query.epstr) - 1) :
           /\ consumer.query.epstr[i] = "[" => consumer.query.epstr[i + 1] \notin SpaceChars
           /\ consumer.query.epstr[i] \in SpaceChars
                 => consumer.query.epstr[i + 1] \notin {",", "]"})
        => /\ consumer.status = "returned"
           /\ \A p \in GrammarParts(consumer.query.epstr) :
                 PartsAsRead(consumer.query.epstr, p, ParsedRecord)

\* from_string keeps the whitespace before a comma.
C27_WhitespaceKept ==
    /\ ParsedWellFormed
    /\ consumer.query.kind = "from_string"
    /\ consumer.query.epstr = <<"m", ":", "f", " ", "[", "x", " ", ",", "y", "]">>
    /\ consumer.result.value.extras = << <<"x", " ">>, <<"y">> >>

\* entrypoints_from_configparser strips it.
C27_WhitespaceStripped ==
    /\ ParsedWellFormed
    /\ consumer.query.kind = "entrypoints_from_configparser"
    /\ consumer.query.epstr = <<"m", ":", "f", " ", "[", " ", "x", " ", ",", " ", "y", " ", "]">>
    /\ consumer.result.value[1].extras = << <<"x">>, <<"y">> >>


\* ------------------------------------------------------------------------
\* Properties of the values scan() yields
\* ------------------------------------------------------------------------

\* C28: whatever is at the paths of the list, every value scan() yields
\* is a result with a list of distributions, scan() raises nothing, and
\* a query ends with its result or with NoSuchEntryPoint (when the cache
\* file could be read and written).
C28_WellFormedResults ==
    /\ \A i \in 1..Len(session.processed) : session.processed[i].value # None
    /\ gen.how # "raised"
    /\ (/\ consumer.query.kind \in {"get_single", "get_group_all", "get_group_named"}
        /\ consumer.status = "raised"
        /\ session.failed = ""
        /\ gen.how # "construct")
          => consumer.exc.type = "NoSuchEntryPoint"

\* C28 for lists of directories, missing paths that are no eggs, and zip
\* archives: the values are results with distributions.
C28_WellFormedResultsOfDirectories ==
    \A i \in 1..Len(session.processed) :
        (/\ ~EndsWith(session.processed[i].path, DotEgg)
         /\ session.processed[i].stored = None
         /\ fs[session.processed[i].path].kind \in {"dir", "zip", "missing"})
            => session.processed[i].value # None

\* scan() yields None for a regular file that is no zip archive.
C28_NoneForRegularFile ==
    /\ probe # NoProbe
    /\ probe.f.kind = "file"
    /\ probe.out.raised = ""
    /\ probe.out.value = None
    /\ gen.pc = "yielded"
    /\ gen.value = None

\* get_single fails with TypeError on that value.
C28_QueryFailsWithTypeError ==
    /\ consumer.query.kind = "get_single"
    /\ consumer.status = "raised"
    /\ consumer.exc = Exc("TypeError")

\* scan() yields None for a zip egg without EGG-INFO/entry_points.txt.
C28_NoneForEggArchive ==
    /\ probe # NoProbe
    /\ EndsWith(probe.path, DotEgg)
    /\ probe.f.kind = "zip"
    /\ probe.out.called = {"egg"}
    /\ probe.out.value = None


\* C29: the 'isdir' field of the result of a fresh scan of a directory or
\* a zip archive is the file-type test of the location: true for a
\* directory, false for a zip archive; and a stored entry of a zip
\* archive whose modification time has not changed is taken as valid.
C29_IsDirOfScan ==
    /\ FreshScan => probe.out.value.isdir = (probe.f.kind = "dir")
    /\ (/\ NonEggCallWithEntry
        /\ probe.f.kind = "zip"
        /\ probe.path_cache.mtime = probe.f.mtime)
          => probe.out.called = {}

\* C29 for directories.
C29_IsDirOfDirectoryScan ==
    (FreshScan /\ probe.f.kind = "dir") => probe.out.value.isdir

\* The stored entry of an unchanged zip archive, made by a scan of the
\* archive, is not taken: the archive is scanned again.
C29_UnchangedArchiveScannedAgain ==
    /\ NonEggCallWithEntry
    /\ probe.f.kind = "zip"
    /\ probe.path_cache.mtime = probe.f.mtime
    /\ probe.path_cache.isdir
    /\ probe.out.called = {"zip"}
    /\ probe.out.value = probe.path_cache


\* ------------------------------------------------------------------------
\* Properties of one session after another
\* ------------------------------------------------------------------------

\* The session follows one over the same list whose write, if it made
\* one, did not fail; the filesystem is as that session left it, and
\* caching is enabled.
FollowsSameSession ==
    /\ gen.pc # "none"
    /\ session.prev # None
    /\ session.prev.locations = gen.locations
    /\ session.prev.failed = ""
    /\ session.prev.fs = fs
    /\ scanner.cache_file # ""

C30_LaterSessionGoesFurther ==
    /\ FollowsSameSession
    /\ session.prev.how = "closed"
    /\ gen.i > session.prev.i
    /\ session.flushes = 1


\* ------------------------------------------------------------------------
\* Properties of a session that its consumer leaves early
\* ------------------------------------------------------------------------

\* The locations scan() has yielded a result for.
Reached == {gen.locations[k] : k \in 1..(gen.i - 1)}

\* The store a new scanner starts with.
LoadedStore ==
    IF scanner.cache_file # "" THEN read_user_cache(session.file0) ELSE EmptyDict

C32_StoreHasYielded ==
    /\ gen.pc = "yielded"
          => Get(scanner.working_cache, gen.locations[gen.i - 1]) = gen.value
    /\ gen.how \in {"", "closed", "exhausted", "raised"}
          => \A k \in 1..Len(session.processed) :
                Get(scanner.working_cache, session.processed[k].path)
                    = session.processed[k].value

\* A fresh scan of a directory with the marker file has put its result
\* in the place of another entry.
C32_NonCacheableStored ==
    /\ gen.pc = "yielded"
    /\ probe.out.called = {"dir"}
    /\ probe.path \in scanner.non_cacheable_paths
    /\ probe.has_entry
    /\ probe.path_cache # gen.value
    /\ Get(scanner.working_cache, probe.path) = gen.value

\* The store's entry has been yielded as it was.
C32_YieldedFromStore ==
    /\ gen.pc = "yielded"
    /\ probe.has_entry
    /\ probe.out.called = {}
    /\ gen.value = probe.path_cache
    /\ Get(scanner.working_cache, probe.path) = gen.value


\* ------------------------------------------------------------------------
\* Properties of a call of entrypoints_for_path outside scan()
\* ------------------------------------------------------------------------

\* A step of the loop of check_shadowing that called entrypoints_for_path.
DirectCallStep ==
    /\ gen.pc = "direct"
    /\ session'.processed # session.processed

\* C33: a call of entrypoints_for_path, whether it is answered from the
\* store, by a fresh scan, or ends in an error, changes neither the
\* in-memory store nor the cache file; the store of a scanner changes only
\* in a step of scan(), and the cache file only in the write that ends it.
C33_ReadOnly ==
    [][/\ DirectCallStep => /\ scanner'.working_cache = scanner.working_cache
                            /\ cacheFile' = cacheFile
       /\ (scanner'.working_cache # scanner.working_cache /\ gen.pc # "none")
             => gen.pc = "ready" /\ gen'.pc = "yielded"
       /\ cacheFile' # cacheFile => gen.pc \notin {"none", "direct", "ready", "yielded", "done"}]_vars

\* A run of check_shadowing whose first call was answered from the store,
\* whose second scanned a directory changed since it was stored, and whose
\* third raised, with the store and the cache file as the run found them.
C33_ThreeCalls ==
    /\ gen.pc = "done"
    /\ consumer.query.kind = "check_shadowing"
    /\ gen.how = "raised"
    /\ Len(session.processed) = 3
    /\ session.processed[1].stored # None
    /\ session.processed[1].value = session.processed[1].stored
    /\ session.processed[2].stored # None
    /\ session.processed[2].value # session.processed[2].stored
    /\ probe.out.raised = "FileNotFoundError"
    /\ cacheFile # NoFile
    /\ cacheFile = session.file0
    /\ scanner.working_cache = read_user_cache(cacheFile)
    /\ Get(scanner.working_cache, SP1) = session.processed[2].stored


\* ------------------------------------------------------------------------
\* Properties of get_single and get_group_named, side by side
\* ------------------------------------------------------------------------

\* The outcome of the query of consumer c over the outcomes outs of
\* entrypoints_for_path for the locations from the i-th on, as scan()
\* hands them to the query.
RECURSIVE QueryOutcome(_, _, _)
QueryOutcome(c, outs, i) ==
    IF c.status # "running" THEN c
    ELSE IF i > Len(outs) THEN FinishQuery(c, NoExc)
    ELSE IF outs[i].raised # "" THEN FinishQuery(c, Exc(outs[i].raised))
    ELSE QueryOutcome(ConsumeQuery(c, outs[i].value), outs, i + 1)

\* The outcomes of entrypoints_for_path for the k-th location of the
\* session: the one the session had, or, for a location the session did
\* not come to, the ones a call would have now.
OutcomesAt(k) ==
    IF k <= Len(session.processed)
    THEN {Returned(session.processed[k].value, {}, FALSE)}
    ELSE IF k = Len(session.processed) + 1 /\ gen.how = "raised"
    THEN {probe.out}
    ELSE {entrypoints_for_path(scanner.working_cache, gen.locations[k],
                               fs[gen.locations[k]], listing) :
             listing \in ListingsOf(fs[gen.locations[k]])}

\* The outcomes, location by location, that a query over the whole list
\* of the session meets.
OutcomesOfList ==
    {outs \in [1..Len(gen.locations) -> UNION {OutcomesAt(k) : k \in 1..Len(gen.locations)}] :
        \A k \in 1..Len(gen.locations) : outs[k] \in OutcomesAt(k)}

\* get_single has ended, with the cache written if it was to be.
GetSingleDone ==
    /\ gen.pc = "done"
    /\ consumer.query.kind = "get_single"
    /\ gen.how \in {"closed", "exhausted", "raised"}
    /\ gen.werr = NoExc

\* get_single(group, name) as the session had it agrees with
\* get_group_named(group) over the outcomes outs.
AgreesWith(outs) ==
    LET named == QueryOutcome([NoConsumer EXCEPT !.query = GetGroupNamed(consumer.query.group)],
                              outs, 1)
    IN  /\ consumer.status = "returned"
            => /\ named.status = "returned"
               /\ consumer.query.name \in DOMAIN named.result.value
               /\ named.result.value[consumer.query.name] = consumer.result.value
        /\ (named.status = "returned" /\ consumer.query.name \in DOMAIN named.result.value)
            => /\ consumer.status = "returned"
               /\ named.result.value[consumer.query.name] = consumer.result.value
        /\ (named.status = "returned" /\ consumer.query.name \notin DOMAIN named.result.value)
            <=> (consumer.status = "raised"
                 /\ consumer.exc = NoSuchEntryPoint(consumer.query.group, consumer.query.name))

C34_AgreeOverDictionaries ==
    GetSingleDone
        => \A outs \in OutcomesOfList :
              (\A k \in 1..Len(outs) : outs[k].raised = "" /\ outs[k].value # None)
                  => AgreesWith(outs)

\* get_single returned the entry point of a directory that comes before
\* an egg that does not exist: get_group_named has no mapping to compare
\* with, its scan() raises at the egg.
C34_ReturnedBeforeMissingEgg ==
    /\ GetSingleDone
    /\ consumer.status = "returned"
    /\ gen.i = 3
    /\ fs[EGG].kind = "missing"
    /\ \E outs \in OutcomesOfList :
          /\ outs[3].raised = "FileNotFoundError"
          /\ QueryOutcome([NoConsumer EXCEPT !.query = GetGroupNamed(G)], outs, 1).exc
                = Exc("FileNotFoundError")

\* get_single and get_group_named agree on a name that is a key and on one
\* that is not, over a path of dictionaries.
C34_BothAnswers ==
    /\ GetSingleDone
    /\ consumer.query.name = NC
    /\ consumer.exc = NoSuchEntryPoint(G, NC)
    /\ \E outs \in OutcomesOfList :
          LET named == QueryOutcome([NoConsumer EXCEPT !.query = GetGroupNamed(G)], outs, 1)
          IN  named.status = "returned" /\ DOMAIN named.result.value = {NA, NB}


\* ------------------------------------------------------------------------
\* Properties of rebuild_cache without a cache file
\* ------------------------------------------------------------------------

\* C35: rebuild_cache called while caching is disabled raises RuntimeError
\* before doing anything else: the store and the set of non-cacheable
\* paths of the scanner it is called on (one at hand, or one just made)
\* and the files are unchanged by the failed call.
C35_RaisesFirst ==
    [][(gen.pc = "none" /\ consumer'.query.kind = "rebuild_cache" /\ environ = "0")
          => /\ consumer'.status = "raised"
             /\ consumer'.exc = Exc("RuntimeError")
             /\ gen'.pc = "done"
             /\ scanner' = scanner \/ scanner' = NewScanner(environ, cacheFile)
             /\ scanner'.working_cache = session'.before
             /\ fs' = fs
             /\ cacheFile' = cacheFile
             /\ tmpFile' = tmpFile
             /\ litter' = litter]_vars

\* rebuild_cache has raised RuntimeError on a scanner whose store has
\* entries and which holds a path as non-cacheable: it has them still.
C35_RaisedWithStoreIntact ==
    /\ gen.pc = "done"
    /\ consumer.query.kind = "rebuild_cache"
    /\ consumer.exc = Exc("RuntimeError")
    /\ scanner.cache_file = ""
    /\ DOMAIN scanner.working_cache = {EGG, SP1}
    /\ scanner.non_cacheable_paths = {SP1}
    /\ scanner.working_cache = session.before
    /\ cacheFile = NoFile


\* ------------------------------------------------------------------------
\* Properties of distributions without a name
\* ------------------------------------------------------------------------

\* The distributions of the results the session had from its k-th
\* location on, in the order iter_all_epinfo goes through them.
RECURSIVE DistributionsFrom(_)
DistributionsFrom(k) ==
    IF k > Len(session.processed) THEN <<>>
    ELSE (IF session.processed[k].value = None THEN <<>>
          ELSE session.processed[k].value.distributions)
         \o DistributionsFrom(k + 1)

\* Those whose directory name has no hyphen: name and version are null.
IsNullNamed(d) == d.name = NoneStr

NullNamed == SelectSeq(DistributionsFrom(1), IsNullNamed)

\* The entry points of group that the distribution d declares.
EntryPointsOf(d, group) ==
    {EntryPoint(d, d.entrypoints[j]) : j \in {i \in 1..Len(d.entrypoints) :
                                                 d.entrypoints[i].group = group}}

\* The entry points a query returned: the members of the list of
\* get_group_all, the values of the mapping of get_group_named.
ResultValues == {consumer.result.value[x] : x \in DOMAIN consumer.result.value}

ParsedByTheOther ==
    IF consumer.query.kind = "from_string"
    THEN entrypoints_from_configparser({<<G, consumer.query.name, consumer.query.epstr>>})[1]
    ELSE from_string(consumer.query.epstr, consumer.query.name).result.value

\* The two parsers give the same module path, attribute path and extras.
SameParts ==
    /\ ParsedRecord.module_name = ParsedByTheOther.module_name
    /\ ParsedRecord.object_name = ParsedByTheOther.object_name
    /\ ParsedRecord.extras = ParsedByTheOther.extras

\* C37: for every reference string that matches the grammar,
\* EntryPoint.from_string and entrypoints_from_configparser produce the
\* same module path, the same attribute path and the same extras list,
\* also when the extras payload has whitespace before a comma or just
\* inside the brackets.
C37_ParsersAgree == ParsedWellFormed => consumer.status = "returned" /\ SameParts

\* The two parsers agree on a string without whitespace inside its
\* brackets other than after a comma.
C37_ParsersAgreeWithoutInnerWhitespace ==
    (/\ ParsedWellFormed
     /\ \A i \in 1..(Len(consumer.query.epstr) - 1) :
           /\ consumer.query.epstr[i] = "[" => consumer.query.epstr[i + 1] \notin SpaceChars
           /\ consumer.query.epstr[i] \in SpaceChars
                 => consumer.query.epstr[i + 1] \notin {",", "]"})
        => consumer.status = "returned" /\ SameParts

\* from_string has parsed a string with a space before the comma: its
\* extras are not those of entrypoints_from_configparser.
C37_ExtrasDiffer ==
    /\ ParsedWellFormed
    /\ consumer.query.kind = "from_string"
    /\ consumer.query.epstr = <<"m", " ", "[", "x", " ", ",", "y", "]">>
    /\ consumer.result.value.extras = << <<"x", " ">>, <<"y">> >>
    /\ ParsedByTheOther.extras = << <<"x">>, <<"y">> >>
    /\ ParsedByTheOther.module_name = consumer.result.value.module_name
    /\ ParsedByTheOther.object_name = consumer.result.value.object_name


\* ------------------------------------------------------------------------
\* Properties of the hash-keyed cache layer
\* ------------------------------------------------------------------------

\* Cache.get_single has ended.
CacheGetSingleDone == consumer.query.kind = "Cache.get_single" /\ consumer.status # "running"

\* The records of the group asked for.
GroupData ==
    IF consumer.query.group \in DOMAIN consumer.query.data.groups
    THEN consumer.query.data.groups[consumer.query.group]
    ELSE <<>>

\* The places of the records with the name asked for.
NamedRecords == {i \in 1..Len(GroupData) : GroupData[i].name = consumer.query.name}

FirstNamed == CHOOSE i \in NamedRecords : \A j \in NamedRecords : i <= j

\* The entry point of a record.
EntryPointOfRecord(rec) ==
    [from_string(rec.epstr, rec.name).result.value
        EXCEPT !.distro = [name |-> rec.distro_name, version |-> rec.distro_version]]

\* C38: Cache.get_single(group, name) returns an entry point whose name is
\* the requested name, made from the first record of the group with that
\* name (when the reference of that record matches the grammar), and
\* raises NoSuchEntryPoint with the requested group and name when the
\* group has no record with that name.
C38_GetSingle ==
    CacheGetSingleDone
        => IF NamedRecords = {}
           THEN /\ consumer.status = "raised"
                /\ consumer.exc = NoSuchEntryPoint(consumer.query.group, consumer.query.name)
           ELSE WellFormed(GroupData[FirstNamed].epstr)
                   => /\ consumer.status = "returned"
                      /\ consumer.result.value.name = consumer.query.name
                      /\ consumer.result.value = EntryPointOfRecord(GroupData[FirstNamed])

\* What Cache.get_single does: it returns the entry point of the first
\* record of the group whose reference the pattern matches, under the name
\* of that record, whatever name was asked for; without such a record it
\* raises NoSuchEntryPoint with the group and the name of the last record,
\* or the requested name when the group has no record.
C38_FirstRecordOfTheGroup ==
    CacheGetSingleDone
        => LET ok == {i \in 1..Len(GroupData) : entry_point_pattern(GroupData[i].epstr).ok}
           IN  IF ok # {}
               THEN /\ consumer.status = "returned"
                    /\ \E i \in ok : /\ \A j \in ok : i <= j
                                     /\ consumer.result.value = EntryPointOfRecord(GroupData[i])
               ELSE /\ consumer.status = "raised"
                    /\ consumer.exc =
                         NoSuchEntryPoint(consumer.query.group,
                                          IF GroupData = <<>> THEN consumer.query.name
                                          ELSE GroupData[Len(GroupData)].name)

\* Asked for b, Cache.get_single returned the entry point a of the record
\* before the one that declares b.
C38_OtherNameReturned ==
    /\ CacheGetSingleDone
    /\ consumer.query.name = NB
    /\ Len(GroupData) = 2
    /\ GroupData[1].name = NA
    /\ GroupData[2].name = NB
    /\ consumer.status = "returned"
    /\ consumer.result.value.name = NA
    /\ consumer.result.value.module_name = GroupData[1].epstr

\* Asked for a name no record has, Cache.get_single returned an entry
\* point.
C38_ReturnedForMissingName ==
    /\ CacheGetSingleDone
    /\ consumer.query.name = NC
    /\ consumer.status = "returned"

=============================================================================
